---- MODULE Spec2Model ----
(***************************************************************************)
(* Model of the engine-analysis services of the chess viewer:              *)
(*   - StockfishService   (src/app/services/MoveTreeService.ts:147-508)    *)
(*   - ChessEngineService (src/app/services/ChessEngineService.ts:29-243)  *)
(* The engine worker is an asynchronous peer: commands posted to it wait   *)
(* in `inbox`, the lines it posts back wait in `outbox`, both FIFO.        *)
(*                                                                         *)
(* Scores: the code stores pawns (centipawns / 100, a float).  The model   *)
(* keeps every score multiplied by ScoreScale, i.e. in centipawns, so that *)
(* all comparisons stay the comparisons of the code on integers.           *)
(***************************************************************************)
EXTENDS Integers, Sequences, FiniteSets, TLC

VARIABLES
    worker,          \* StockfishService.worker: "null" or "live"
    loading,         \* init() is awaiting loadStockfish()
    initTimeout,     \* the 10 s timer of loadStockfish is armed
    attached,        \* worker.onmessage is the handler of setupMessageHandler
    status,          \* the state last passed to the onStatus callback
    config,          \* StockfishService._config
    variations,      \* StockfishService.variations, in Map order
    currentFen,      \* StockfishService.currentFen
    isAnalyzing,     \* StockfishService.isAnalyzing
    inbox,           \* commands posted to the worker, not yet read by it
    outbox,          \* lines posted by the worker, not yet handled
    engine,          \* the engine behind the worker
    surfaced,        \* the list last passed to the onAnalysis callback
    requested,       \* analyze() has been called on the present worker
    ceWorker,        \* ChessEngineService.worker: "null" or "live"
    ceSettings,      \* ChessEngineService.settings
    currentAnalysis, \* ChessEngineService.currentAnalysis
    ceSurfaced,      \* the list last passed to onAnalysisUpdate
    cePosted,        \* the commands the last step posted to the worker
    ceGoSent,        \* a `go` has been posted to the present worker
    ceOrphanGo,      \* a worker replaced by initialize() had been sent a `go`
    glInstance,      \* GameListService.instance: 0 (null) or its object
    glHeap,          \* the GameListService objects ever constructed
    glOut,           \* the list the last getGames() call returned
    obInstance,      \* OpeningBookService.instance: 0 (unset) or its object
    obHeap,          \* the OpeningBookService objects ever constructed
    obNow,           \* Date.now(), in units of the cache timeout's step
    obPending,       \* getMovesForPosition calls awaiting their fetch
    obOut,           \* the last OpeningBookService call and its answer
    obDone,          \* per cache key, when a fetch last completed since the
                     \* cache was last cleared, whether it had failed and
                     \* what its call resolved to
    boards,          \* BoardManager.boards, in Map order
    activeBoard,     \* BoardManager.activeBoard: <<>> (null) or <<id>>
    bmOut,           \* outcome of the last BoardManager call
    chess,           \* GameManager.chess
    moveHistory,     \* GameManager.moveHistory
    gmCurrentMoveIndex, \* GameManager.currentMoveIndex
    gmOut,           \* outcome of the last GameManager call
    gmStart,         \* the FEN the loaded game or position starts from
    mtMoves,         \* MoveTreeService.moves
    mtCurrentMoveIndex, \* MoveTreeService.currentMoveIndex
    mtOut,           \* outcome of the last MoveTreeService call
    eaEngineService, \* EngineAnalysisService.engineService is not null
    eaIsAnalyzing,   \* EngineAnalysisService.isAnalyzing
    eaCurrentPosition, \* EngineAnalysisService.currentPosition: <<>> or <<fen>>
    eaGoStanding     \* the present worker was sent a go and no stop since

sfVars == <<worker, loading, initTimeout, attached, status, config,
            variations, currentFen, isAnalyzing, inbox, outbox, engine,
            surfaced, requested>>
ceVars == <<ceWorker, ceSettings, currentAnalysis, ceSurfaced, cePosted,
           ceGoSent, ceOrphanGo>>
glVars == <<glInstance, glHeap, glOut>>
obVars == <<obInstance, obHeap, obNow, obPending, obOut, obDone>>
bmVars == <<boards, activeBoard, bmOut>>
gmVars == <<chess, moveHistory, gmCurrentMoveIndex, gmOut, gmStart>>
mtVars == <<mtMoves, mtCurrentMoveIndex, mtOut>>
eaVars == <<eaEngineService, eaIsAnalyzing, eaCurrentPosition, eaGoStanding>>
appVars == <<glVars, obVars, bmVars, gmVars, mtVars, eaVars>>
vars == <<sfVars, ceVars, appVars>>

(***************************************************************************)
(* Bounds of the model.                                                    *)
(***************************************************************************)
MaxMultiPV == 2     \* multiPV values and slot numbers range over 1..MaxMultiPV
MaxInFlight == 1    \* info lines among the lines waiting for the handler
MaxOutbox == 2      \* worker lines waiting for the message handler

(***************************************************************************)
(* Program constants.                                                      *)
(***************************************************************************)
ScoreScale == 100
MateBase == 1000000
SliceMax == 4
MinPvMoves == 5

(***************************************************************************)
(* Positions and the rules library (chess.js), reduced to what the         *)
(* services ask of it: which coordinate moves it accepts in a position     *)
(* and the SAN text it gives for them.                                     *)
(***************************************************************************)
FenA == "rnbqkbnr/pp1ppppp/8/2p5/4P3/8/PPPP1PPP/RNBQKBNR w KQkq c6 0 2"
FenB == "rnbqkbnr/pp1ppppp/8/2p5/4P3/5N2/PPPP1PPP/RNBQKB1R b KQkq - 1 2"
Fens == {FenA, FenB}

StartFen == "rnbqkbnr/pppppppp/8/8/8/8/PPPPPPPP/RNBQKBNR w KQkq - 0 1"

\* The coordinate moves of the principal variations below.  Any other
\* token of a line is not a move of the position.
WhiteMoves == {"g1f3", "b1c3", "d2d4", "f3d4"}
BlackMoves == {"d7d6", "e7e6", "g8f6", "c5d4"}
CoordinateMoves == WhiteMoves \cup BlackMoves

Played(played, uci) == \E i \in 1..Len(played) : played[i] = uci

\* The side to move after `played` was played from `fen`.
Turn(fen, played) ==
    LET first == IF fen = FenB THEN "b" ELSE "w"
    IN IF Len(played) % 2 = 0 THEN first
       ELSE IF first = "w" THEN "b" ELSE "w"

\* chess.moves({verbose: true}) / chess.move(): whether the library accepts
\* the coordinate move after `played` was played from `fen`.
Legal(fen, played, uci) ==
    /\ uci \in (IF Turn(fen, played) = "w" THEN WhiteMoves ELSE BlackMoves)
    /\ ~Played(played, uci)
    /\ uci = "g1f3" => fen # FenB
    /\ uci = "f3d4" =>
          /\ fen = FenB \/ Played(played, "g1f3")
          /\ ~Played(played, "d2d4") \/ Played(played, "c5d4")
    /\ uci = "c5d4" =>
          /\ fen \in {FenA, FenB}
          /\ Played(played, "d2d4") \/ Played(played, "f3d4")

\* matchingMove.san / result.san
San(played, uci) ==
    CASE uci = "g1f3" -> "Nf3"
      [] uci = "b1c3" -> "Nc3"
      [] uci = "d7d6" -> "d6"
      [] uci = "d2d4" -> "d4"
      [] uci = "c5d4" -> "cxd4"
      [] uci = "f3d4" -> IF Played(played, "c5d4") THEN "Nxd4" ELSE "Nd4"
      [] uci = "g8f6" -> "Nf6"
      [] uci = "e7e6" -> "e6"
      [] OTHER -> "?"

SanOf(played) ==
    [i \in 1..Len(played) |-> San(SubSeq(played, 1, i - 1), played[i])]

\* The loop of processVariation over the tokens: a move the library
\* accepts is played and its SAN kept, any other token is skipped.
\* played[i] is the line played after the first i tokens.
Convert(fen, uciMoves) ==
    LET played[i \in 0..Len(uciMoves)] ==
          IF i = 0 THEN <<>>
          ELSE LET before == played[i - 1]
               IN IF Legal(fen, before, uciMoves[i])
                  THEN Append(before, uciMoves[i])
                  ELSE before
    IN played[Len(uciMoves)]
ToSan(fen, uciMoves) == SanOf(Convert(fen, uciMoves))

(***************************************************************************)
(* Principal variations as the engine prints them (coordinate moves).      *)
(***************************************************************************)
PvNf3 == <<"g1f3", "d7d6", "d2d4", "c5d4", "f3d4">>
PvNf3Long == <<"g1f3", "d7d6", "d2d4", "c5d4", "f3d4", "g8f6">>
PvNc3 == <<"b1c3", "e7e6", "g1f3", "d7d6", "d2d4">>
PvD6 == <<"d7d6", "d2d4", "c5d4", "f3d4", "g8f6">>
PvE6 == <<"e7e6", "d2d4", "c5d4", "f3d4", "g8f6">>
PvD4 == <<"d2d4", "c5d4", "g1f3", "d7d6", "f3d4">>
PvShort == <<"g1f3", "d7d6", "d2d4">>

\* The lines an engine searching `fen` prints start with a move of `fen`.
EnginePvs(fen) ==
    IF fen = FenA THEN {PvNf3Long, PvNc3}
    ELSE IF fen = FenB THEN {PvD6, PvE6}
    ELSE {}

(***************************************************************************)
(* Worker commands and worker lines.  `fresh` is a history mark, not data  *)
(* of the program: a `go`, and every line of the search it starts, is      *)
(* fresh until the next analyze() call.                                    *)
(***************************************************************************)
Cmd(c) == [cmd |-> c, fen |-> "", depth |-> 0, multipv |-> 0, name |-> "",
           value |-> 0, fresh |-> TRUE, request |-> FALSE]
\* `request` is a history mark: the isready that ends an analyze() call,
\* and the readyok that answers it.
AnalyzeIsready == [Cmd("isready") EXCEPT !.request = TRUE]
PositionCmd(f) == [Cmd("position") EXCEPT !.fen = f]
\* `fen` of a go is a history mark: the position of the request it answers.
GoCmd(d, m, f) == [Cmd("go") EXCEPT !.depth = d, !.multipv = m, !.fen = f]
SetOptionCmd(n, v) == [Cmd("setoption") EXCEPT !.name = n, !.value = v]

Msg(t) == [type |-> t, multipv |-> 0, kind |-> "none", value |-> 0,
           pv |-> <<>>, fresh |-> TRUE, request |-> FALSE]
InfoLine(slot, k, v, p, f) ==
    [Msg("info") EXCEPT !.multipv = slot, !.kind = k, !.value = v, !.pv = p,
                        !.fresh = f]

\* analyze() makes every `go` still waiting and every line still in flight
\* belong to an earlier request.
Aged(x) == IF "cmd" \in DOMAIN x
           THEN IF x.cmd = "go" THEN [x EXCEPT !.fresh = FALSE] ELSE x
           ELSE IF x.type = "info" THEN [x EXCEPT !.fresh = FALSE] ELSE x
Age(q) == [i \in 1..Len(q) |-> Aged(q[i])]

(***************************************************************************)
(* StockfishService: the variation table (a JavaScript Map, which keeps    *)
(* its keys in insertion order) and the ranking of processVariation.       *)
(***************************************************************************)
\* Map.prototype.set: an existing key keeps its place, a new key goes last.
MapSet(m, v) ==
    IF \E i \in 1..Len(m) : m[i].multipv = v.multipv
    THEN [i \in 1..Len(m) |-> IF m[i].multipv = v.multipv THEN v ELSE m[i]]
    ELSE Append(m, v)

\* duplicateVariations.forEach(([key]) => this.variations.delete(key))
DeleteFirstMove(m, firstMove) ==
    SelectSeq(m, LAMBDA e : e.moves[1] # firstMove)

getEffectiveScore(v) ==
    IF v.hasMate
    THEN IF v.mate > 0 THEN ScoreScale * (MateBase + v.mate)
                       ELSE ScoreScale * (-MateBase + v.mate)
    ELSE v.score

\* Array.prototype.sort with (a, b) => scoreB - scoreA: stable, descending.
RECURSIVE InsertDesc(_, _)
InsertDesc(sorted, v) ==
    IF sorted = <<>> THEN <<v>>
    ELSE IF getEffectiveScore(Head(sorted)) >= getEffectiveScore(v)
         THEN <<Head(sorted)>> \o InsertDesc(Tail(sorted), v)
         ELSE <<v>> \o sorted

RECURSIVE SortDesc(_)
SortDesc(s) ==
    IF s = <<>> THEN <<>>
    ELSE InsertDesc(SortDesc(SubSeq(s, 1, Len(s) - 1)), s[Len(s)])

Slice(s, n) == SubSeq(s, 1, IF Len(s) < n THEN Len(s) ELSE n)

sortedVariations(m) == Slice(SortDesc(m), SliceMax)

\* The best effective score among the table entries with this first move.
BestDuplicate(m, firstMove) ==
    LET dups == {i \in 1..Len(m) : m[i].moves[1] = firstMove}
    IN CHOOSE s \in {getEffectiveScore(m[i]) : i \in dups} :
          \A i \in dups : getEffectiveScore(m[i]) <= s

\* A slip in shouldAdd: an equal score replaces too.
ShouldAddOnEqual(m, variation) ==
    LET firstMove == variation.moves[1]
    IN \/ ~ \E i \in 1..Len(m) : m[i].moves[1] = firstMove
       \/ getEffectiveScore(variation) >= BestDuplicate(m, firstMove)

\* shouldAdd
ShouldAdd(m, variation) ==
    LET firstMove == variation.moves[1]
    IN \/ ~ \E i \in 1..Len(m) : m[i].moves[1] = firstMove
       \/ getEffectiveScore(variation) > BestDuplicate(m, firstMove)

\* A slip in processVariation: no check of the first move.
RecordCandidateNoDedup(m, variation) == MapSet(m, variation)

\* The table after processVariation has looked at `variation`.
RecordCandidate(m, variation) ==
    IF ShouldAdd(m, variation)
    THEN MapSet(DeleteFirstMove(m, variation.moves[1]), variation)
    ELSE m

\* numericValue / 100, a number of pawns, in the unit of the model, which
\* is 1 / ScoreScale of a pawn: the whole pawns and the rest.
Pawns(numericValue) ==
    ScoreScale * (numericValue \div 100)
      + (ScoreScale * (numericValue % 100)) \div 100

\* handleInfoMessage: the fields read from one info line.
ParseInfo(line) ==
    [multipv |-> line.multipv,
     hasScore |-> line.kind = "cp",
     score |-> IF line.kind = "cp" THEN Pawns(line.value) ELSE 0,
     hasMate |-> line.kind = "mate",
     mate |-> IF line.kind = "mate" THEN line.value ELSE 0]

\* The text of a line is `info depth D multipv M score K V pv <moves>`.
\* /pv (.+)/ matches at the first `pv `, the one inside `multipv`, so the
\* tokens processVariation splits off start with what follows `multi`.
PvTokens(line) ==
    <<ToString(line.multipv), "score", line.kind, ToString(line.value), "pv">>
      \o line.pv

\* The Variation processVariation builds from a line.
MakeVariation(line, sanMoves) ==
    LET info == ParseInfo(line)
    IN [multipv |-> info.multipv, score |-> info.score,
        hasMate |-> info.hasMate, mate |-> info.mate, moves |-> sanMoves,
        fresh |-> line.fresh]

\* Whether processVariation gets as far as building a Variation.
Accepted(line, cfg, sanMoves) ==
    LET info == ParseInfo(line)
    IN /\ line.pv # <<>>
       /\ info.multipv # 0
       /\ info.hasScore \/ info.hasMate
       /\ info.multipv <= cfg.multiPV
       /\ Len(PvTokens(line)) >= MinPvMoves
       /\ Len(sanMoves) >= MinPvMoves

(***************************************************************************)
(* Configuration.  updateConfig takes a partial configuration: a function  *)
(* from some of the keys to their new values.                              *)
(***************************************************************************)
Depths == {12, 40}
ConfigKeys == {"multiPV", "depth"}
KeyValues(k) == IF k = "multiPV" THEN 1..MaxMultiPV ELSE Depths
Partials ==
    UNION {{p \in [K -> 1..MaxMultiPV \cup Depths] :
              \A k \in K : p[k] \in KeyValues(k)} : K \in SUBSET ConfigKeys}

\* { ...this._config, ...newConfig }
Merge(cfg, p) ==
    [k \in DOMAIN cfg |-> IF k \in DOMAIN p THEN p[k] ELSE cfg[k]]

getOptionName(key) ==
    CASE key = "threads" -> "Threads"
      [] key = "hash" -> "Hash"
      [] key = "multiPV" -> "MultiPV"
      [] key = "depth" -> "Depth"
      [] key = "skillLevel" -> "Skill Level"
      [] OTHER -> key

\* A slip in updateConfig: a setoption for every key of the partial.
ChangedOptionsNoDiff(old, p) ==
    LET keep(k) == k \in DOMAIN p
        given == SelectSeq(<<"threads", "hash", "multiPV", "depth",
                             "skillLevel">>, keep)
    IN [i \in 1..Len(given) |->
          SetOptionCmd(getOptionName(given[i]), p[given[i]])]

\* Object.entries(newConfig) in the key order of EngineConfig, one
\* setoption for each key whose value changes.
KeyOrder == <<"threads", "hash", "multiPV", "depth", "skillLevel">>
ChangedOptions(old, p) ==
    LET keep(k) == k \in DOMAIN p /\ old[k] # p[k]
        changed == SelectSeq(KeyOrder, keep)
    IN [i \in 1..Len(changed) |->
          SetOptionCmd(getOptionName(changed[i]), p[changed[i]])]

\* The option batch sent on uciok.
HandshakeOptions(cfg) ==
    << SetOptionCmd("MultiPV", cfg.multiPV),
       SetOptionCmd("Threads", cfg.threads),
       SetOptionCmd("Hash", cfg.hash),
       SetOptionCmd("Skill Level", cfg.skillLevel) >>

(***************************************************************************)
(* The engine behind the worker: a UCI engine reading its commands in      *)
(* order.  `pos` is the position it was last given, `preamble` how far the *)
(* commands it read last follow the order stop, ucinewgame, position       *)
(* (setoption, isready and go do not count), and `go` what it had been     *)
(* given when it read its last go.                                         *)
(***************************************************************************)
NoGo == [request |-> "", pos |-> "", preamble |-> "none"]
NewEngine == [alive |-> TRUE, pos |-> "", searching |-> FALSE,
              fresh |-> TRUE, preamble |-> "none", go |-> NoGo]

\* The engine after reading command c.
EngineRead(e, c) ==
    CASE c.cmd = "stop" ->
           [e EXCEPT !.searching = FALSE, !.preamble = "stop"]
      [] c.cmd = "ucinewgame" ->
           [e EXCEPT !.preamble = IF @ = "stop" THEN "ucinewgame" ELSE "none"]
      [] c.cmd = "position" ->
           [e EXCEPT !.pos = c.fen,
                     !.preamble = IF @ = "ucinewgame" THEN "position"
                                  ELSE "none"]
      [] c.cmd = "go" ->
           [e EXCEPT !.searching = TRUE, !.fresh = c.fresh,
                     !.go = [request |-> c.fen, pos |-> e.pos,
                             preamble |-> e.preamble]]
      [] c.cmd = "quit" -> [e EXCEPT !.alive = FALSE, !.searching = FALSE]
      [] OTHER -> e

\* The line the engine answers command c with, if any.
EngineReply(c) ==
    CASE c.cmd = "uci" -> <<Msg("uciok")>>
      [] c.cmd = "isready" ->
           <<[Msg("readyok") EXCEPT !.request = c.request]>>
      [] OTHER -> <<>>

(***************************************************************************)
(* StockfishService: the operations.                                       *)
(***************************************************************************)
\* The worker runs on its own thread and reads its queue between two tasks
\* of the page: a call from the page finds the queue read.  What the page
\* can observe of a slower worker, lines that arrive late, is in `outbox`.
WorkerCaughtUp == inbox = <<>>

\* The engine's search output in the model of the session protocol.
SessionScores == {<<"cp", 35>>}

InitialConfigs ==
    {[threads |-> 1, hash |-> 128, multiPV |-> m, depth |-> 40,
      skillLevel |-> 20] : m \in 1..MaxMultiPV}

\* `surfaced` is the output of the last step: the list that step passed to
\* the onAnalysis callback, if it called it, and the value shouldAdd had.
\* `candidate` holds the variation the step built, if it built one, `info`
\* the record the step passed to the onInfo callback, if it called it, and
\* `token` the `score <kind> <value>` token of the line that record was
\* parsed from.
NoEmission == [emitted |-> FALSE, shouldAdd |-> FALSE, candidate |-> <<>>,
               list |-> <<>>, info |-> <<>>, token |-> <<>>]

\* ChessEngineService as constructed by the viewer, before initialize().
CeDefaultSettings == [threads |-> 1, hash |-> 2048, multiPv |-> 1, depth |-> 40]
\* The services of a board before any call: no singleton has been asked
\* for, no board is registered, the game manager is at the start position.
NoBmCall == [op |-> "none", threw |-> FALSE, events |-> <<>>]
NoGmCall == [op |-> "none", result |-> FALSE, notified |-> FALSE]
NoObCall == [op |-> "none", key |-> <<>>, fetched |-> FALSE, position |-> <<>>]

AppInit ==
    /\ glInstance = 0
    /\ glHeap = <<>>
    /\ glOut = <<>>
    /\ obInstance = 0
    /\ obHeap = <<>>
    /\ obNow = 0
    /\ obPending = <<>>
    /\ obOut = NoObCall
    /\ obDone = <<>>
    /\ boards = <<>>
    /\ activeBoard = <<>>
    /\ bmOut = NoBmCall
    /\ chess = [fen |-> StartFen, line |-> <<>>]
    /\ moveHistory = <<>>
    /\ gmCurrentMoveIndex = -1
    /\ gmOut = NoGmCall
    /\ gmStart = StartFen
    /\ mtMoves = <<>>
    /\ mtCurrentMoveIndex = -1
    /\ mtOut = NoGmCall
    /\ eaEngineService = FALSE
    /\ eaIsAnalyzing = FALSE
    /\ eaCurrentPosition = <<>>
    /\ eaGoStanding = FALSE

CeInit ==
    /\ ceWorker = "null"
    /\ ceSettings = CeDefaultSettings
    /\ currentAnalysis = <<>>
    /\ ceSurfaced = [emitted |-> FALSE, list |-> <<>>]
    /\ cePosted = <<>>
    /\ ceGoSent = FALSE
    /\ ceOrphanGo = FALSE

Init ==
    /\ worker = "null"
    /\ loading = FALSE
    /\ initTimeout = FALSE
    /\ attached = FALSE
    /\ status = "not_initialized"
    /\ config \in InitialConfigs
    /\ variations = <<>>
    /\ currentFen = ""
    /\ isAnalyzing = FALSE
    /\ inbox = <<>>
    /\ outbox = <<>>
    /\ engine = [NewEngine EXCEPT !.alive = FALSE]
    /\ surfaced = NoEmission
    /\ requested = FALSE
    /\ CeInit
    /\ AppInit

\* The start of the runs of the board services: the engine service as
\* constructed, with the default multiPV.
InitApp == Init /\ config.multiPV = 1

\* init(), up to the await of loadStockfish(): the status goes to
\* initializing, the old worker is told to quit and dropped, and a new
\* worker is created and sent `uci`.
InitCall ==
    /\ ~loading
    /\ WorkerCaughtUp \/ ~engine.alive
    /\ status' = "initializing"
    /\ worker' = "null"
    /\ loading' = TRUE
    /\ initTimeout' = TRUE
    /\ attached' = FALSE
    /\ inbox' = <<Cmd("uci")>>
    /\ outbox' = <<>>
    /\ engine' = NewEngine
    /\ requested' = FALSE
    /\ UNCHANGED <<config, variations, currentFen, isAnalyzing>>
    /\ surfaced' = NoEmission
    /\ UNCHANGED <<ceVars, appVars>>

\* A line reaches the listeners of loadStockfish(): the first line clears
\* the timer; `uciok` resolves the promise, and init() goes on: it keeps
\* the worker, installs the message handler and sends `uci` again.
LoadMessage ==
    /\ loading
    /\ outbox # <<>>
    /\ outbox' = Tail(outbox)
    /\ initTimeout' = FALSE
    /\ IF Head(outbox).type = "uciok"
       THEN /\ worker' = "live"
            /\ attached' = TRUE
            /\ loading' = FALSE
            /\ inbox' = Append(inbox, Cmd("uci"))
       ELSE UNCHANGED <<worker, attached, loading, inbox>>
    /\ UNCHANGED <<status, config, variations, currentFen, isAnalyzing,
                   engine, requested>>
    /\ surfaced' = NoEmission
    /\ UNCHANGED <<ceVars, appVars>>

\* The 10 s timer of loadStockfish() fires before any line has arrived:
\* the worker is terminated, the promise rejects, init() reports the error.
LoadTimeout ==
    /\ loading
    /\ initTimeout
    /\ loading' = FALSE
    /\ initTimeout' = FALSE
    /\ status' = "error"
    /\ engine' = [engine EXCEPT !.alive = FALSE, !.searching = FALSE]
    /\ inbox' = <<>>
    /\ outbox' = <<>>
    /\ UNCHANGED <<worker, attached, config, variations, currentFen,
                   isAnalyzing, requested>>
    /\ surfaced' = NoEmission
    /\ UNCHANGED <<ceVars, appVars>>

\* The worker's error event.  worker.onerror is the handler loadStockfish()
\* has set: it rejects the promise of that call.  While init() awaits the
\* promise it reports the error; once the promise has resolved the
\* rejection has no effect, and nothing else listens to the event.
WorkerError ==
    /\ engine.alive
    /\ engine' = [engine EXCEPT !.alive = FALSE, !.searching = FALSE]
    /\ IF loading
       THEN /\ loading' = FALSE
            /\ initTimeout' = FALSE
            /\ status' = "error"
            /\ inbox' = <<>>
            /\ outbox' = <<>>
       ELSE UNCHANGED <<loading, initTimeout, status, inbox, outbox>>
    /\ UNCHANGED <<worker, attached, config, variations, currentFen,
                   isAnalyzing, requested>>
    /\ surfaced' = NoEmission
    /\ UNCHANGED <<ceVars, appVars>>

\* A slip in analyze(): the position is set before the engine is reset.
AnalyzeCommandsPositionFirst(fen) ==
    <<PositionCmd(fen), Cmd("stop"), Cmd("ucinewgame"), AnalyzeIsready>>

\* The four postMessage calls of analyze(fen).
AnalyzeCommands(fen) ==
    <<Cmd("stop"), Cmd("ucinewgame"), PositionCmd(fen), AnalyzeIsready>>

\* The body of analyze(fen) on a live worker, after `sent` was posted
\* earlier in the same call.
AnalyzeBody(fen, sent) ==
    /\ variations' = <<>>
    /\ currentFen' = fen
    /\ isAnalyzing' = TRUE
    /\ inbox' = Age(inbox \o sent) \o AnalyzeCommands(fen)
    /\ outbox' = Age(outbox)
    /\ engine' = [engine EXCEPT !.fresh = FALSE]
    /\ requested' = TRUE

\* analyze(fen)
Analyze(fen) ==
    /\ worker = "live"
    /\ WorkerCaughtUp
    /\ AnalyzeBody(fen, <<>>)
    /\ UNCHANGED <<worker, loading, initTimeout, attached, status, config>>
    /\ surfaced' = NoEmission
    /\ UNCHANGED <<ceVars, appVars>>

\* stop()
Stop ==
    /\ worker = "live"
    /\ WorkerCaughtUp
    /\ inbox' = Append(inbox, Cmd("stop"))
    /\ isAnalyzing' = FALSE
    /\ UNCHANGED <<worker, loading, initTimeout, attached, status, config,
                   variations, currentFen, outbox, engine, requested>>
    /\ surfaced' = NoEmission
    /\ UNCHANGED <<ceVars, appVars>>

\* A slip in updateConfig: the analysis under way is not restarted.
UpdateConfigNoRestart(newConfig) ==
    LET options == ChangedOptions(config, newConfig)
        sent == options \o <<Cmd("isready")>>
    IN /\ WorkerCaughtUp
       /\ config' = Merge(config, newConfig)
       /\ IF worker # "live"
          THEN UNCHANGED inbox
          ELSE inbox' = inbox \o sent
       /\ UNCHANGED <<worker, loading, initTimeout, attached, status,
                      variations, currentFen, isAnalyzing, outbox, engine,
                      requested>>
       /\ surfaced' = NoEmission
       /\ UNCHANGED <<ceVars, appVars>>

\* updateConfig(newConfig)
UpdateConfig(newConfig) ==
    LET options == ChangedOptions(config, newConfig)
        sent == options \o <<Cmd("isready")>>
    IN /\ WorkerCaughtUp
       /\ config' = Merge(config, newConfig)
       /\ IF worker # "live"
          THEN UNCHANGED <<variations, currentFen, isAnalyzing, inbox,
                           outbox, engine, requested>>
          ELSE IF isAnalyzing
               THEN AnalyzeBody(currentFen, sent)
               ELSE /\ inbox' = inbox \o sent
                    /\ UNCHANGED <<variations, currentFen, isAnalyzing,
                                   outbox, engine, requested>>
       /\ UNCHANGED <<worker, loading, initTimeout, attached, status>>
       /\ surfaced' = NoEmission
    /\ UNCHANGED <<ceVars, appVars>>

\* dispose()
Dispose ==
    /\ WorkerCaughtUp
    /\ IF worker = "live"
       THEN inbox' = Append(inbox, Cmd("quit"))
       ELSE UNCHANGED inbox
    /\ worker' = "null"
    /\ variations' = <<>>
    /\ isAnalyzing' = FALSE
    /\ UNCHANGED <<loading, initTimeout, attached, status, config,
                   currentFen, outbox, engine, requested>>
    /\ surfaced' = NoEmission
    /\ UNCHANGED <<ceVars, appVars>>

\* worker.onmessage, message === 'uciok'
OnUciok ==
    /\ attached
    /\ outbox # <<>>
    /\ Head(outbox).type = "uciok"
    /\ outbox' = Tail(outbox)
    /\ status' = "ready"
    /\ IF worker = "live"
       THEN inbox' = inbox \o HandshakeOptions(config) \o <<Cmd("isready")>>
       ELSE UNCHANGED inbox
    /\ UNCHANGED <<worker, loading, initTimeout, attached, config,
                   variations, currentFen, isAnalyzing, engine, requested>>
    /\ surfaced' = NoEmission
    /\ UNCHANGED <<ceVars, appVars>>

\* worker.onmessage, message === 'readyok'
OnReadyok ==
    /\ attached
    /\ outbox # <<>>
    /\ Head(outbox).type = "readyok"
    /\ outbox' = Tail(outbox)
    /\ IF isAnalyzing /\ worker = "live"
       THEN /\ inbox' = Append(inbox,
                  GoCmd(config.depth, config.multiPV,
                        IF requested THEN currentFen ELSE ""))
            /\ status' = "analyzing"
       ELSE UNCHANGED <<inbox, status>>
    /\ UNCHANGED <<worker, loading, initTimeout, attached, config,
                   variations, currentFen, isAnalyzing, engine, requested>>
    /\ surfaced' = NoEmission
    /\ UNCHANGED <<ceVars, appVars>>

\* worker.onmessage, message.startsWith('info'): handleInfoMessage and
\* processVariation.
HandleInfoMessage(line) ==
    LET sanMoves == ToSan(currentFen, PvTokens(line))
        variation == MakeVariation(line, sanMoves)
        table == RecordCandidate(variations, variation)
        info == <<ParseInfo(line)>>
        token == <<line.kind, line.value>>
    IN IF Accepted(line, config, sanMoves)
       THEN /\ variations' = table
            /\ surfaced' = [emitted |-> TRUE,
                            shouldAdd |-> ShouldAdd(variations, variation),
                            candidate |-> <<variation>>,
                            list |-> sortedVariations(table),
                            info |-> info, token |-> token]
       ELSE /\ UNCHANGED variations
            /\ surfaced' = [NoEmission EXCEPT !.info = info,
                                              !.token = token]

OnInfo ==
    /\ attached
    /\ outbox # <<>>
    /\ Head(outbox).type = "info"
    /\ outbox' = Tail(outbox)
    /\ HandleInfoMessage(Head(outbox))
    /\ UNCHANGED <<worker, loading, initTimeout, attached, status, config,
                   currentFen, isAnalyzing, inbox, engine, requested>>
    /\ UNCHANGED <<ceVars, appVars>>

(***************************************************************************)
(* The engine's steps.                                                     *)
(***************************************************************************)
\* A command the page can see the effect of: it is answered, or it starts
\* the search whose lines follow.
Observable(c) == c.cmd \in {"uci", "isready", "go"}

\* The commands the engine reads in one step: those up to and including
\* the first observable one.
RECURSIVE ReadCount(_)
ReadCount(q) ==
    IF q = <<>> THEN 0
    ELSE IF Observable(Head(q)) THEN 1
    ELSE 1 + ReadCount(Tail(q))

RECURSIVE EngineReadAll(_, _)
EngineReadAll(e, q) ==
    IF q = <<>> THEN e ELSE EngineReadAll(EngineRead(e, Head(q)), Tail(q))

\* The engine reads its next commands and answers the last of them.
EngineStep ==
    LET n == ReadCount(inbox)
        read == SubSeq(inbox, 1, n)
    IN /\ engine.alive
       /\ inbox # <<>>
       /\ Len(outbox) + Len(EngineReply(read[n])) <= MaxOutbox
       /\ inbox' = SubSeq(inbox, n + 1, Len(inbox))
       /\ outbox' = outbox \o EngineReply(read[n])
       /\ engine' = EngineReadAll(engine, read)
       /\ UNCHANGED <<worker, loading, initTimeout, attached, status, config,
                      variations, currentFen, isAnalyzing, requested>>
       /\ surfaced' = NoEmission
       /\ UNCHANGED <<ceVars, appVars>>

\* The starting engine prints a line that is not uciok: its banner
\* (`Stockfish 16 ...`) or one of the `id` and `option` lines.
EngineBanner ==
    /\ engine.alive
    /\ loading
    /\ inbox = <<Cmd("uci")>>
    /\ outbox = <<>>
    /\ outbox' = <<Msg("banner")>>
    /\ UNCHANGED <<worker, loading, initTimeout, attached, status, config,
                   variations, currentFen, isAnalyzing, inbox, engine,
                   requested>>
    /\ surfaced' = NoEmission
    /\ UNCHANGED <<ceVars, appVars>>

\* The searching engine prints an info line for the position it searches.
EngineEmit ==
    /\ engine.alive
    /\ engine.searching
    /\ Len(outbox) < MaxOutbox
    /\ Cardinality({i \in 1..Len(outbox) : outbox[i].type = "info"})
          < MaxInFlight
    /\ \E slot \in 1..MaxMultiPV, sc \in SessionScores,
          pv \in EnginePvs(engine.go.pos) :
          outbox' = Append(outbox,
                           InfoLine(slot, sc[1], sc[2], pv, engine.fresh))
    /\ UNCHANGED <<worker, loading, initTimeout, attached, status, config,
                   variations, currentFen, isAnalyzing, inbox, engine,
                   requested>>
    /\ surfaced' = NoEmission
    /\ UNCHANGED <<ceVars, appVars>>

\* The search reaches its depth and ends.
EngineSearchEnds ==
    /\ engine.alive
    /\ engine.searching
    /\ engine' = [engine EXCEPT !.searching = FALSE]
    /\ UNCHANGED <<worker, loading, initTimeout, attached, status, config,
                   variations, currentFen, isAnalyzing, inbox, outbox,
                   requested>>
    /\ surfaced' = NoEmission
    /\ UNCHANGED <<ceVars, appVars>>

Next ==
    \/ InitCall
    \/ LoadMessage
    \/ LoadTimeout
    \/ \E fen \in Fens : Analyze(fen)
    \/ Stop
    \/ \E p \in Partials : UpdateConfig(p)
    \/ Dispose
    \/ OnUciok
    \/ OnReadyok
    \/ OnInfo
    \/ EngineStep
    \/ EngineBanner
    \/ EngineEmit
    \/ EngineSearchEnds
    \/ WorkerError

Spec == Init /\ [][Next]_vars

(***************************************************************************)
(* The ranking of processVariation on its own: a session in the middle of  *)
(* an analysis, and info lines of any content arriving one after another.  *)
(***************************************************************************)
RankScores == {<<"mate", 2>>, <<"mate", 5>>, <<"mate", -2>>, <<"mate", -5>>,
               <<"cp", 35>>, <<"cp", 42>>, <<"cp", 100000300>>}
RankPvs == {PvNf3, PvNc3, PvD4}
RankLines ==
    {InfoLine(slot, sc[1], sc[2], pv, TRUE) :
       slot \in 1..MaxMultiPV, sc \in RankScores, pv \in RankPvs}

InitRank ==
    /\ worker = "live"
    /\ loading = FALSE
    /\ initTimeout = FALSE
    /\ attached = TRUE
    /\ status = "analyzing"
    /\ config \in InitialConfigs
    /\ variations = <<>>
    /\ currentFen = FenA
    /\ isAnalyzing = TRUE
    /\ inbox = <<>>
    /\ outbox = <<>>
    /\ engine = [NewEngine EXCEPT
                   !.pos = FenA, !.searching = TRUE, !.preamble = "position",
                   !.go = [request |-> FenA, pos |-> FenA,
                           preamble |-> "position"]]
    /\ surfaced = NoEmission
    /\ requested = TRUE
    /\ CeInit
    /\ AppInit

\* The worker posts an info line and the message handler runs on it.
InfoArrives(line) ==
    /\ attached
    /\ HandleInfoMessage(line)
    /\ UNCHANGED <<worker, loading, initTimeout, attached, status, config,
                   currentFen, isAnalyzing, inbox, outbox, engine,
                   requested>>
    /\ UNCHANGED <<ceVars, appVars>>

NextRank == \E line \in RankLines : InfoArrives(line)

SpecRank == InitRank /\ [][NextRank]_vars

\* The bookkeeping of the table depends on the scores only through their
\* order: two strengths give a candidate that is weaker than, as strong as
\* and stronger than an entry.
DedupScores == {<<"cp", 35>>, <<"mate", 2>>}
DedupLines ==
    {InfoLine(slot, sc[1], sc[2], pv, TRUE) :
       slot \in 1..MaxMultiPV, sc \in DedupScores, pv \in RankPvs}

NextDedup == \E line \in DedupLines : InfoArrives(line)

SpecDedup == InitRank /\ [][NextDedup]_vars

\* Lines with a principal variation of three moves next to lines with one
\* of five.
PvLines ==
    {InfoLine(slot, "cp", v, pv, TRUE) :
       slot \in 1..MaxMultiPV, v \in {35, 42},
       pv \in {PvShort, PvNf3, PvNc3, PvD4}}

NextPv == \E line \in PvLines : InfoArrives(line)

SpecPv == InitRank /\ [][NextPv]_vars

\* The page calls that steer an analysis, on a session in the middle of an
\* analysis, with the worker answering and info lines arriving at any time.
ConfigLines == {InfoLine(slot, "cp", 35, PvNf3, TRUE) : slot \in 1..MaxMultiPV}

NextConfig ==
    \/ \E fen \in Fens : Analyze(fen)
    \/ Stop
    \/ \E p \in Partials : UpdateConfig(p)
    \/ OnReadyok
    \/ EngineStep
    \/ \E line \in ConfigLines : InfoArrives(line)

SpecConfig == InitRank /\ [][NextConfig]_vars


(***************************************************************************)
(* ChessEngineService.  Its lines are converted from the starting          *)
(* position (new Chess()), whatever position is analysed.                  *)
(***************************************************************************)
\* The conversion loop of processAnalysisLine.  A token that is not two
\* squares is passed over.  chess.move() on an illegal move returns null in
\* some releases of the library (the move is skipped) and throws in others
\* (the loop breaks): `throws` says which.
CeConvert(moves, throws) ==
    LET loop[i \in 0..Len(moves)] ==
          IF i = 0 THEN [played |-> <<>>, broken |-> FALSE]
          ELSE LET before == loop[i - 1]
               IN IF before.broken \/ moves[i] \notin CoordinateMoves
                  THEN before
                  ELSE IF Legal(StartFen, before.played, moves[i])
                  THEN [before EXCEPT !.played = Append(@, moves[i])]
                  ELSE [before EXCEPT !.broken = throws]
    IN loop[Len(moves)].played
CeToSan(moves, throws) == SanOf(CeConvert(moves, throws))

\* newLine of updateAnalysis.
NewLine(line, sanMoves) ==
    [move |-> sanMoves[1],
     score |-> IF line.kind = "cp" THEN Pawns(line.value) ELSE 0,
     hasMate |-> line.kind = "mate",
     mate |-> IF line.kind = "mate" THEN line.value ELSE 0,
     pv |-> sanMoves]

\* findIndex on the first move: replace in place, else push.
CeStore(analysis, newLine) ==
    IF \E i \in 1..Len(analysis) : analysis[i].move = newLine.move
    THEN LET existingIndex ==
                 CHOOSE i \in 1..Len(analysis) :
                    /\ analysis[i].move = newLine.move
                    /\ \A j \in 1..(i - 1) : analysis[j].move # newLine.move
         IN [analysis EXCEPT ![existingIndex] = newLine]
    ELSE Append(analysis, newLine)

\* The comparator of updateAnalysis: negative puts a first.
CeCompare(a, b) ==
    IF a.hasMate /\ b.hasMate THEN b.mate - a.mate
    ELSE IF a.hasMate THEN -1
    ELSE IF b.hasMate THEN 1
    ELSE b.score - a.score

\* Array.prototype.sort with that comparator (stable).
RECURSIVE CeInsert(_, _)
CeInsert(sorted, v) ==
    IF sorted = <<>> THEN <<v>>
    ELSE IF CeCompare(Head(sorted), v) <= 0
         THEN <<Head(sorted)>> \o CeInsert(Tail(sorted), v)
         ELSE <<v>> \o sorted
RECURSIVE CeSort(_)
CeSort(s) ==
    IF s = <<>> THEN <<>>
    ELSE CeInsert(CeSort(SubSeq(s, 1, Len(s) - 1)), s[Len(s)])

sortedAnalysis(analysis, settings) == Slice(CeSort(analysis), settings.multiPv)

CeNoEmission == [emitted |-> FALSE, list |-> <<>>]

\* initializeEngine
InitializeEngineCommands(settings) ==
    << Cmd("uci"),
       SetOptionCmd("MultiPV", settings.multiPv),
       SetOptionCmd("Threads", settings.threads),
       SetOptionCmd("Hash", settings.hash),
       SetOptionCmd("Use NNUE", 1),
       SetOptionCmd("UCI_AnalyseMode", 1),
       Cmd("isready") >>

\* initialize(): a worker is created, the handler attached, and the engine
\* set up.  A worker that was there is no longer referred to, but it is not
\* terminated and its handler still calls into the service.
CeInitialize ==
    /\ ceWorker' = "live"
    /\ cePosted' = InitializeEngineCommands(ceSettings)
    /\ ceOrphanGo' = (ceOrphanGo \/ (ceWorker = "live" /\ ceGoSent))
    /\ ceGoSent' = FALSE
    /\ ceSurfaced' = CeNoEmission
    /\ UNCHANGED <<ceSettings, currentAnalysis>>
    /\ UNCHANGED <<sfVars, appVars>>

\* startAnalysis(position)
CeStartAnalysis(fen) ==
    /\ IF ceWorker = "null"
       THEN /\ cePosted' = <<>>
            /\ UNCHANGED <<currentAnalysis, ceGoSent>>
       ELSE /\ currentAnalysis' = <<>>
            /\ cePosted' = << Cmd("stop"), PositionCmd(fen), Cmd("isready"),
                              GoCmd(ceSettings.depth, ceSettings.multiPv, fen) >>
            /\ ceGoSent' = TRUE
    /\ ceSurfaced' = CeNoEmission
    /\ UNCHANGED <<ceWorker, ceSettings, ceOrphanGo>>
    /\ UNCHANGED <<sfVars, appVars>>

\* stopAnalysis()
CeStopAnalysis ==
    /\ IF ceWorker = "null"
       THEN /\ cePosted' = <<>>
            /\ UNCHANGED currentAnalysis
       ELSE /\ currentAnalysis' = <<>>
            /\ cePosted' = << Cmd("stop") >>
    /\ ceSurfaced' = CeNoEmission
    /\ UNCHANGED <<ceWorker, ceSettings, ceGoSent, ceOrphanGo>>
    /\ UNCHANGED <<sfVars, appVars>>

\* updateSettings(newSettings)
CeUpdateSettings(newSettings) ==
    /\ IF ceWorker = "null"
       THEN /\ cePosted' = <<>>
            /\ UNCHANGED ceSettings
       ELSE /\ cePosted' = << Cmd("stop"),
                              SetOptionCmd("MultiPV", newSettings.multiPv),
                              SetOptionCmd("Threads", newSettings.threads),
                              SetOptionCmd("Hash", newSettings.hash),
                              Cmd("isready") >>
            /\ ceSettings' = newSettings
    /\ ceSurfaced' = CeNoEmission
    /\ UNCHANGED <<ceWorker, currentAnalysis, ceGoSent, ceOrphanGo>>
    /\ UNCHANGED <<sfVars, appVars>>

\* cleanup()
CeCleanup ==
    /\ IF ceWorker = "null"
       THEN /\ cePosted' = <<>>
            /\ UNCHANGED <<ceWorker, ceGoSent>>
       ELSE /\ cePosted' = << Cmd("quit") >>
            /\ ceWorker' = "null"
            /\ ceGoSent' = FALSE
    /\ ceSurfaced' = CeNoEmission
    /\ UNCHANGED <<ceSettings, currentAnalysis, ceOrphanGo>>
    /\ UNCHANGED <<sfVars, appVars>>

\* worker.onmessage on an info line with pv, score and multipv:
\* handleInfoMessage, processAnalysisLine and updateAnalysis.
CeInfoArrives(line, throws) ==
    /\ (ceWorker = "live" /\ ceGoSent) \/ ceOrphanGo
    /\ LET sanMoves == CeToSan(PvTokens(line), throws)
       IN IF Len(sanMoves) > 0
          THEN LET analysis == CeStore(currentAnalysis, NewLine(line, sanMoves))
               IN /\ currentAnalysis' = analysis
                  /\ ceSurfaced' = [emitted |-> TRUE,
                                     list |-> sortedAnalysis(analysis, ceSettings)]
          ELSE /\ UNCHANGED currentAnalysis
               /\ ceSurfaced' = CeNoEmission
    /\ cePosted' = <<>>
    /\ UNCHANGED <<ceWorker, ceSettings, ceGoSent, ceOrphanGo>>
    /\ UNCHANGED <<sfVars, appVars>>

\* The lines a worker may post, and the settings the viewer may choose.
CeScores == {<<"mate", 2>>, <<"mate", 5>>, <<"mate", -2>>, <<"mate", -5>>,
             <<"cp", 35>>}
CePvs == {PvNf3, PvNc3, PvD6}
CeLines == {InfoLine(1, sc[1], sc[2], pv, TRUE) : sc \in CeScores, pv \in CePvs}
CeSettingsChoices ==
    {[CeDefaultSettings EXCEPT !.multiPv = m] : m \in 1..MaxMultiPV}

NextCE ==
    \/ CeInitialize
    \/ \E fen \in Fens : CeStartAnalysis(fen)
    \/ CeStopAnalysis
    \/ \E newSettings \in CeSettingsChoices : CeUpdateSettings(newSettings)
    \/ CeCleanup
    \/ \E line \in CeLines, throws \in BOOLEAN : CeInfoArrives(line, throws)

SpecCE == Init /\ [][NextCE]_vars

(***************************************************************************)
(* Claims about the session protocol, checked under Spec.                  *)
(***************************************************************************)
\* The commands a step posts to the worker.
Posted == SubSeq(inbox', Len(inbox) + 1, Len(inbox'))

\* C1: a go that answers an analyze(fen) request is read by the worker
\* right after stop, ucinewgame and the position command of that request,
\* in this order, so the search it starts is a search of the requested
\* position; and every go is posted with the depth and multiPV of the
\* configuration of that moment.
C1_AnalyzeCommandOrder ==
    /\ [](engine.go.request # "" =>
            /\ engine.go.preamble = "position"
            /\ engine.go.pos = engine.go.request)
    /\ [][Len(inbox') > Len(inbox) =>
            \A i \in 1..Len(Posted) :
               Posted[i].cmd = "go" =>
                  /\ Posted[i].depth = config'.depth
                  /\ Posted[i].multipv = config'.multiPV]_vars

\* C1, witness: the engine searches the position of a request after a
\* retarget from the other position.
C1_Witness ==
    /\ engine.searching
    /\ engine.go.request = FenB
    /\ engine.go.pos = FenB
    /\ currentFen = FenB
    /\ status = "analyzing"

\* C2: no line of an earlier search is in the variation table or in the
\* list passed to the variations callback.
C2_NoStaleLine ==
    /\ \A i \in 1..Len(variations) : variations[i].fresh
    /\ \A i \in 1..Len(surfaced.list) : surfaced.list[i].fresh

\* C3: the list passed to the variations callback has at most
\* config.multiPV entries.
C3_AtMostMultiPV ==
    surfaced.emitted => Len(surfaced.list) <= config.multiPV

(***************************************************************************)
(* Claims about the table and the ranking, checked under SpecDedup,        *)
(* SpecRank and SpecCE.                                                    *)
(***************************************************************************)
IsPositiveMate(v) == v.hasMate /\ v.mate > 0
IsNegativeMate(v) == v.hasMate /\ v.mate < 0
IsScore(v) == ~v.hasMate

\* C4: the variation table and the emitted list never hold two entries
\* with the same first move.
DistinctFirstMoves(l) ==
    \A i, j \in 1..Len(l) : i # j => l[i].moves[1] # l[j].moves[1]
C4_DistinctFirstMoves ==
    DistinctFirstMoves(variations) /\ DistinctFirstMoves(surfaced.list)

\* C4, witness: a candidate with the first move of an entry has just been
\* turned down, next to an entry with another first move.
C4_Witness ==
    /\ surfaced.emitted
    /\ ~surfaced.shouldAdd
    /\ Len(variations) = 2

\* C5: of two lines with a positive mate distance, the faster mate is
\* ranked first.
FasterMateFirst(l) ==
    \A i, j \in 1..Len(l) :
       i < j /\ IsPositiveMate(l[i]) /\ IsPositiveMate(l[j])
         => l[i].mate <= l[j].mate
C5_FasterMateFirst ==
    FasterMateFirst(surfaced.list) /\ FasterMateFirst(ceSurfaced.list)

\* C6: a line with a positive mate distance is ranked above every line
\* with a non-mate score.
MateAboveScore(l) ==
    \A i, j \in 1..Len(l) : IsPositiveMate(l[i]) /\ IsScore(l[j]) => i < j
C6_MateAboveScore ==
    MateAboveScore(surfaced.list) /\ MateAboveScore(ceSurfaced.list)

\* C7: a line with a negative mate distance is ranked below every line
\* with a non-mate score.
MatedBelowScore(l) ==
    \A i, j \in 1..Len(l) : IsNegativeMate(l[i]) /\ IsScore(l[j]) => j < i
C7_MatedBelowScore ==
    MatedBelowScore(surfaced.list) /\ MatedBelowScore(ceSurfaced.list)

\* C8: of two lines with a negative mate distance, the slower loss (the
\* larger magnitude) is ranked first.
SlowerLossFirst(l) ==
    \A i, j \in 1..Len(l) :
       i < j /\ IsNegativeMate(l[i]) /\ IsNegativeMate(l[j])
         => l[i].mate <= l[j].mate
C8_SlowerLossFirst ==
    SlowerLossFirst(surfaced.list) /\ SlowerLossFirst(ceSurfaced.list)

\* The candidate the step built, the entries that had its first move, and
\* what storing it means.
Candidate == surfaced'.candidate[1]
Duplicates(v) ==
    {i \in 1..Len(variations) : variations[i].moves[1] = v.moves[1]}
StoredAlone(v) ==
    /\ \E k \in 1..Len(variations') : variations'[k] = v
    /\ \A k \in 1..Len(variations') :
          variations'[k].moves[1] = v.moves[1] => variations'[k] = v

\* C9 as claimed: a candidate with the first move of an entry is discarded
\* only if such an entry is strictly stronger; otherwise it is stored and
\* the older entries with that first move are removed.
C9_ReplacedUnlessStronger ==
    [][surfaced'.emitted /\ Duplicates(Candidate) # {}
         => IF \E i \in Duplicates(Candidate) :
                 getEffectiveScore(variations[i]) > getEffectiveScore(Candidate)
            THEN variations' = variations
            ELSE StoredAlone(Candidate)]_vars

\* C9, amended: a candidate with the first move of an entry is discarded
\* if such an entry is at least as strong; it is stored, and the older
\* entries with that first move removed, only if it is strictly stronger
\* than all of them.
C9_ReplacedOnlyIfStronger ==
    [][surfaced'.emitted /\ Duplicates(Candidate) # {}
         => IF \E i \in Duplicates(Candidate) :
                 getEffectiveScore(variations[i]) >= getEffectiveScore(Candidate)
            THEN variations' = variations
            ELSE StoredAlone(Candidate)]_vars

\* C9, witness: a candidate has just been discarded against a different
\* entry with its first move and exactly its strength.
C9_Witness ==
    /\ surfaced.emitted
    /\ ~surfaced.shouldAdd
    /\ \E i \in 1..Len(variations) :
          /\ variations[i].moves[1] = surfaced.candidate[1].moves[1]
          /\ variations[i] # surfaced.candidate[1]
          /\ getEffectiveScore(variations[i]) =
               getEffectiveScore(surfaced.candidate[1])

\* C10: entries of equal effective strength are emitted in ascending order
\* of their slot number.
C10_TiesBySlot ==
    \A i, j \in 1..Len(surfaced.list) :
       /\ i < j
       /\ getEffectiveScore(surfaced.list[i]) =
            getEffectiveScore(surfaced.list[j])
       => surfaced.list[i].multipv < surfaced.list[j].multipv

(***************************************************************************)
(* Claims about the session state and the status callback, checked under   *)
(* Spec and SpecCE.                                                        *)
(***************************************************************************)
\* C11: a stop() call on a session that reports analyzing, and a second
\* stop() call right after it, each leave the reported state ready and the
\* variation table as it was.
C11_StopLeavesReady ==
    [][Stop /\ status \in {"analyzing", "ready"}
         => status' = "ready" /\ variations' = variations]_vars

\* C12: stopAnalysis() posts stop and leaves the accumulated analysis
\* lines of ChessEngineService as they were.
C12_StopKeepsAnalysis ==
    [][CeStopAnalysis /\ ceWorker = "live"
         => cePosted' = <<Cmd("stop")>> /\ currentAnalysis' = currentAnalysis]_vars

\* C13: the state last passed to the status callback is the state of the
\* session: it says analyzing only while the session is analysing, and
\* after dispose() (no worker, no init() under way) it says not_initialized
\* or error.
C13_StatusTracksState ==
    /\ status = "analyzing" => isAnalyzing
    /\ worker = "null" /\ ~loading => status \in {"not_initialized", "error"}

\* C14: during initialization the reported state becomes ready only in the
\* step that handles the engine's readyok.
C14_ReadyOnlyOnReadyok ==
    [][status = "initializing" /\ status' = "ready"
         => outbox # <<>> /\ Head(outbox).type = "readyok"]_vars

\* C15: while init() awaits the handshake line the timer of the timeout
\* stays armed, whatever other lines the worker has posted, so that a
\* worker that never posts uciok takes the session to error.
C15_TimeoutStaysArmed == loading => initTimeout

\* C16: a step in which the worker fails leaves the reported state error.
C16_ErrorReported == [][WorkerError => status' = "error"]_vars

(***************************************************************************)
(* Claims about updateConfig, checked under Spec.                          *)
(***************************************************************************)
\* The places of the setoption commands for key k in a batch of commands.
SetOptionsFor(q, k) ==
    {i \in 1..Len(q) : q[i].cmd = "setoption" /\ q[i].name = getOptionName(k)}

\* C17: updateConfig(p) on a live worker posts exactly one setoption, with
\* the new value, for each key of p whose value differs from the current
\* configuration, and none for a key that is unchanged or not in p.
C17_OneSetoptionPerChange ==
    [][\A p \in Partials :
         worker = "live" /\ UpdateConfig(p) =>
           \A n \in 1..Len(KeyOrder) :
              LET k == KeyOrder[n]
                  at == SetOptionsFor(Posted, k)
              IN IF k \in DOMAIN p /\ p[k] # config[k]
                 THEN /\ Cardinality(at) = 1
                      /\ \A i \in at : Posted[i].value = p[k]
                 ELSE at = {}]_vars

\* C17, witness: updateConfig has changed the depth and nothing else; the
\* worker has been sent the one setoption for it and the probe.
C17_Witness ==
    /\ Len(inbox) >= 2
    /\ inbox[1] = SetOptionCmd("Depth", 12)
    /\ inbox[2].cmd = "isready"
    /\ config.depth = 12

\* C18: updateConfig on a live worker, while isAnalyzing is set, clears the
\* table and ends its commands with the commands of analyze() for the
\* position that was being analysed; while isAnalyzing is not set it posts
\* nothing but setoption and isready and leaves the table alone.  A go is
\* posted only while isAnalyzing is set, and with the depth and multiPV the
\* configuration has at that moment.
C18_RestartOnUpdateConfig ==
    /\ [][\A p \in Partials :
            worker = "live" /\ UpdateConfig(p) =>
              IF isAnalyzing
              THEN /\ variations' = <<>>
                   /\ currentFen' = currentFen
                   /\ isAnalyzing'
                   /\ Len(Posted) >= 4
                   /\ SubSeq(Posted, Len(Posted) - 3, Len(Posted)) =
                        << Cmd("stop"), Cmd("ucinewgame"),
                           PositionCmd(currentFen), AnalyzeIsready >>
              ELSE /\ variations' = variations
                   /\ ~isAnalyzing'
                   /\ \A i \in 1..Len(Posted) :
                         Posted[i].cmd \in {"setoption", "isready"}]_vars
    /\ [][Len(inbox') > Len(inbox) =>
            \A i \in 1..Len(Posted) :
               Posted[i].cmd = "go" =>
                  /\ isAnalyzing
                  /\ Posted[i].depth = config'.depth
                  /\ Posted[i].multipv = config'.multiPV]_vars

\* C18, witness: updateConfig has changed the depth in the middle of an
\* analysis; the table is empty and the worker has been sent the new
\* option and the commands of analyze() for the same position.
C18_Witness ==
    /\ isAnalyzing
    /\ status = "analyzing"
    /\ variations = <<>>
    /\ Len(inbox) = 6
    /\ inbox[1] = SetOptionCmd("Depth", 12)
    /\ inbox[5] = PositionCmd(currentFen)
    /\ engine.searching
    /\ engine.go.pos = currentFen

\* C31: every readyok that makes the message handler post a go answers
\* the isready of an analysis request (an analyze() call, that of
\* updateConfig included), so that no more go commands are sent than
\* analyses were requested.
C31_OneGoPerRequest ==
    [][OnReadyok /\ Len(inbox') > Len(inbox) => Head(outbox).request]_vars

(***************************************************************************)
(* Claims about dispose() and about the parsing of a line.                 *)
(***************************************************************************)
\* C19: after dispose() (no worker, no init() under way) the variation
\* table is empty and no step calls the onInfo or the onAnalysis callback.
C19_SilentAfterDispose ==
    worker = "null" /\ ~loading =>
       /\ variations = <<>>
       /\ ~surfaced.emitted
       /\ surfaced.info = <<>>

\* The number the code has stored in info.score is n: the model holds
\* ScoreScale times that number.
StoredScoreIs(info, n) == info.hasScore /\ info.score = ScoreScale * n

\* C20: the record parsed from a line with `score cp N` carries the score
\* N and no mate distance; the record parsed from a line with
\* `score mate N` carries the mate distance N and no score.
C20_ScoreAsPrinted ==
    surfaced.info # <<>> =>
       LET info == surfaced.info[1]
           kind == surfaced.token[1]
           N == surfaced.token[2]
       IN /\ kind = "cp" => StoredScoreIs(info, N) /\ ~info.hasMate
          /\ kind = "mate" =>
                info.hasMate /\ info.mate = N /\ ~info.hasScore

\* C21: a line with a slot number not above config.multiPV, a score and at
\* least one legal move leaves an entry for its first move in the table.
C21_OneMoveSuffices ==
    [][\A line \in PvLines :
         LET sanMoves == ToSan(currentFen, PvTokens(line))
         IN /\ InfoArrives(line)
            /\ line.multipv <= config.multiPV
            /\ Len(sanMoves) >= 1
            => \E k \in 1..Len(variations') :
                  variations'[k].moves[1] = sanMoves[1]]_vars

(***************************************************************************)
(* GameListService: the stored games, the filter and the sort of the game  *)
(* list.  A game is its headers; a header a game lacks reads as undefined. *)
(* A criterion the filter lacks is "" or 0, which the code's truthiness    *)
(* tests treat as they treat undefined.  The criteria black, event, site   *)
(* follow the code of white, ecoFrom and ecoTo that of dateFrom and dateTo.*)
(***************************************************************************)
MaxGames == 2       \* length of the list passed to setGames

GameCarlsen == [headers |-> [White |-> "Magnus Carlsen", Result |-> "1-0",
                             Date |-> "2024.01.01",
                             WhiteElo |-> "2850", BlackElo |-> "2800"]]
GameDing == [headers |-> [White |-> "Ding Liren", Result |-> "1/2-1/2",
                          Date |-> "2024.01.15",
                          WhiteElo |-> "2800", BlackElo |-> "2780"]]
GameUndated == [headers |-> [White |-> "Magnus Carlsen", Result |-> "1-0"]]
SampleGames == {GameCarlsen, GameDing, GameUndated}

\* headers[field] || ''
Header(game, field) ==
    IF field \in DOMAIN game.headers THEN game.headers[field] ELSE ""

\* String.prototype.toLowerCase on the names and needles in use.
toLowerCase(str) ==
    CASE str = "Magnus Carlsen" -> "magnus carlsen"
      [] str = "Ding Liren" -> "ding liren"
      [] str = "Carlsen" -> "carlsen"
      [] str = "DING" -> "ding"
      [] OTHER -> str

\* String.prototype.includes on the lower-cased names and needles.
includes(str, searchString) ==
    \/ searchString = ""
    \/ str = searchString
    \/ <<str, searchString>> \in {<<"magnus carlsen", "carlsen">>,
                                  <<"ding liren", "ding">>}

\* The header values in code-unit order, which is also their
\* localeCompare order.
Collation == <<"", "1-0", "1/2-1/2", "2024.01.01", "2024.01.10",
               "2024.01.15", "Ding Liren", "Magnus Carlsen">>
Rank(str) == CHOOSE i \in 1..Len(Collation) : Collation[i] = str

\* a.localeCompare(b)
localeCompare(a, b) ==
    IF Rank(a) < Rank(b) THEN -1 ELSE IF Rank(a) > Rank(b) THEN 1 ELSE 0

\* parseInt on the rating headers in use.
parseInt(str) ==
    CASE str = "2850" -> 2850
      [] str = "2800" -> 2800
      [] str = "2780" -> 2780
      [] OTHER -> 0

\* avgElo of applyFilter: the mean of the two ratings when both headers
\* are there (the sample ratings have whole means), 0 otherwise.
avgElo(game) ==
    IF Header(game, "WhiteElo") # "" /\ Header(game, "BlackElo") # ""
    THEN (parseInt(Header(game, "WhiteElo"))
          + parseInt(Header(game, "BlackElo"))) \div 2
    ELSE 0

NoFilter == [white |-> "", result |-> "", dateFrom |-> "", dateTo |-> "",
             minElo |-> 0, maxElo |-> 0]
DefaultSort == [field |-> "Date", direction |-> "desc"]

\* The callback of games.filter in applyFilter: the first test that
\* fails returns false.
Kept(game, currentFilter) ==
    IF /\ currentFilter.white # ""
       /\ ~includes(toLowerCase(Header(game, "White")),
                    toLowerCase(currentFilter.white))
    THEN FALSE
    ELSE IF /\ currentFilter.result # ""
            /\ Header(game, "Result") # currentFilter.result
    THEN FALSE
    ELSE IF /\ currentFilter.dateFrom # ""
            /\ Header(game, "Date") # ""
            /\ Rank(Header(game, "Date")) < Rank(currentFilter.dateFrom)
    THEN FALSE
    ELSE IF /\ currentFilter.dateTo # ""
            /\ Header(game, "Date") # ""
            /\ Rank(Header(game, "Date")) > Rank(currentFilter.dateTo)
    THEN FALSE
    ELSE IF /\ currentFilter.minElo # 0
            /\ avgElo(game) = 0 \/ avgElo(game) < currentFilter.minElo
    THEN FALSE
    ELSE IF /\ currentFilter.maxElo # 0
            /\ avgElo(game) = 0 \/ avgElo(game) > currentFilter.maxElo
    THEN FALSE
    ELSE TRUE

applyFilter(games, currentFilter) ==
    SelectSeq(games, LAMBDA game : Kept(game, currentFilter))

\* The comparator of applySort.
CompareGames(a, b, currentSort) ==
    localeCompare(Header(a, currentSort.field), Header(b, currentSort.field))
      * (IF currentSort.direction = "asc" THEN 1 ELSE -1)

\* Array.prototype.sort is stable: a game goes behind every game the
\* comparator does not put after it.
InsertGame(sorted, game, currentSort) ==
    LET before == {i \in 0..Len(sorted) :
                     \A j \in 1..i : CompareGames(sorted[j], game, currentSort) <= 0}
        at == CHOOSE i \in before : \A j \in before : j <= i
    IN SubSeq(sorted, 1, at) \o <<game>> \o SubSeq(sorted, at + 1, Len(sorted))

\* A sort that ignores the direction of currentSort.
applySortAscending(games, currentSort) ==
    LET asc == [currentSort EXCEPT !.direction = "asc"]
        sorted[i \in 0..Len(games)] ==
          IF i = 0 THEN <<>> ELSE InsertGame(sorted[i - 1], games[i], asc)
    IN sorted[Len(games)]

applySort(games, currentSort) ==
    LET sorted[i \in 0..Len(games)] ==
          IF i = 0 THEN <<>>
          ELSE InsertGame(sorted[i - 1], games[i], currentSort)
    IN sorted[Len(games)]

applyFilterAndSort(games, service) ==
    applySort(applyFilter(games, service.currentFilter), service.currentSort)

\* new GameListService()
NewGameListService ==
    [games |-> <<>>, currentFilter |-> NoFilter, currentSort |-> DefaultSort]

\* GameListService.getInstance(): the heap and the instance after the call.
GlAfterGetInstance ==
    IF glInstance = 0
    THEN [heap |-> Append(glHeap, NewGameListService),
          instance |-> Len(glHeap) + 1]
    ELSE [heap |-> glHeap, instance |-> glInstance]

\* service.setGames(games) / setFilter(filter) / setSort(sort) on the
\* object `ref` of `heap`.
GlSet(heap, ref, field, value) ==
    [heap EXCEPT ![ref] = [heap[ref] EXCEPT ![field] = value]]

\* GameListService.getInstance().setGames(games)
SetGames(games) ==
    LET got == GlAfterGetInstance
    IN /\ glInstance' = got.instance
       /\ glHeap' = GlSet(got.heap, got.instance, "games", games)
       /\ UNCHANGED <<glOut, obVars, bmVars, gmVars, mtVars, sfVars, ceVars, eaVars>>

SetFilter(filter) ==
    LET got == GlAfterGetInstance
    IN /\ glInstance' = got.instance
       /\ glHeap' = GlSet(got.heap, got.instance, "currentFilter", filter)
       /\ UNCHANGED <<glOut, obVars, bmVars, gmVars, mtVars, sfVars, ceVars, eaVars>>

SetSort(sort) ==
    LET got == GlAfterGetInstance
    IN /\ glInstance' = got.instance
       /\ glHeap' = GlSet(got.heap, got.instance, "currentSort", sort)
       /\ UNCHANGED <<glOut, obVars, bmVars, gmVars, mtVars, sfVars, ceVars, eaVars>>

\* getGames(): the filter and the sort work on a copy of the stored list.
GetGames ==
    LET got == GlAfterGetInstance
        service == got.heap[got.instance]
    IN /\ glInstance' = got.instance
       /\ glHeap' = got.heap
       /\ glOut' = applyFilterAndSort(service.games, service)
       /\ UNCHANGED <<obVars, bmVars, gmVars, mtVars, sfVars, ceVars, eaVars>>

GameLists == UNION {[1..n -> SampleGames] : n \in 0..MaxGames}
Filters ==
    {NoFilter,
     [NoFilter EXCEPT !.white = "DING"],
     [NoFilter EXCEPT !.result = "1-0"],
     [NoFilter EXCEPT !.dateTo = "2024.01.10"],
     [NoFilter EXCEPT !.minElo = 2800],
     [NoFilter EXCEPT !.white = "Carlsen", !.dateFrom = "2024.01.10"],
     [NoFilter EXCEPT !.result = "1-0", !.maxElo = 2800],
     [NoFilter EXCEPT !.white = "Carlsen", !.result = "1-0",
                      !.dateFrom = "2024.01.10", !.maxElo = 2830]}
Sorts == {DefaultSort, [field |-> "Date", direction |-> "asc"],
          [field |-> "White", direction |-> "asc"]}

NextGames ==
    \/ \E games \in GameLists : SetGames(games)
    \/ \E filter \in Filters : SetFilter(filter)
    \/ \E sort \in Sorts : SetSort(sort)
    \/ GetGames

SpecGames == InitApp /\ [][NextGames]_vars

\* The criteria a filter sets, and what each asks of a game: the code's
\* test of that criterion taken alone.  A date bound asks nothing of a
\* game without a Date header; a rating bound asks for both ratings.
CriteriaSet(filter) ==
    {c \in DOMAIN filter :
       IF c \in {"minElo", "maxElo"} THEN filter[c] # 0 ELSE filter[c] # ""}

Meets(game, filter, c) ==
    CASE c = "white" ->
           includes(toLowerCase(Header(game, "White")), toLowerCase(filter.white))
      [] c = "result" -> Header(game, "Result") = filter.result
      [] c = "dateFrom" ->
           \/ Header(game, "Date") = ""
           \/ Rank(Header(game, "Date")) >= Rank(filter.dateFrom)
      [] c = "dateTo" ->
           \/ Header(game, "Date") = ""
           \/ Rank(Header(game, "Date")) <= Rank(filter.dateTo)
      [] c = "minElo" -> avgElo(game) # 0 /\ avgElo(game) >= filter.minElo
      [] c = "maxElo" -> avgElo(game) # 0 /\ avgElo(game) <= filter.maxElo

Count(list, game) == Cardinality({i \in 1..Len(list) : list[i] = game})

InSortOrder(list, sort) ==
    \A k \in 1..(Len(list) - 1) :
       LET a == Rank(Header(list[k], sort.field))
           b == Rank(Header(list[k + 1], sort.field))
       IN IF sort.direction = "asc" THEN a <= b ELSE a >= b

CacheTimeout == 2   \* OpeningBookService.cacheTimeout, in clock ticks

\* new OpeningBookService(): the cache maps a key to position and timestamp.
NewOpeningBookService ==
    [currentDatabase |-> "masters", cache |-> <<>>,
     cacheTimeout |-> CacheTimeout]

\* OpeningBookService.getInstance(): the heap and the instance after the call.
ObAfterGetInstance ==
    IF obInstance = 0
    THEN [heap |-> Append(obHeap, NewOpeningBookService),
          instance |-> Len(obHeap) + 1]
    ELSE [heap |-> obHeap, instance |-> obInstance]

\* setDatabase(type) on the object `ref` of `heap`: the cache is cleared.
ObSetDatabase(heap, ref, type) ==
    [heap EXCEPT ![ref] = [heap[ref] EXCEPT !.currentDatabase = type,
                                            !.cache = <<>>]]

BoardIds == {"", "board1", "board2"}
BoardNames == {"Board"}

HasBoard(id) == \E k \in 1..Len(boards) : boards[k].id = id
BoardOf(id) == boards[CHOOSE k \in 1..Len(boards) : boards[k].id = id]

\* boards.delete(id): the other entries keep their order.
WithoutBoard(id) == SelectSeq(boards, LAMBDA b : b.id # id)

IdsOf(registry) == {registry[k].id : k \in 1..Len(registry)}

\* notifyObservers(event, board), with what getActiveBoard() and getBoard()
\* answer to an observer at that moment.
BoardEvent(event, board, active, registry) ==
    [event |-> event, board |-> board, active |-> active,
     registered |-> IdsOf(registry)]

\* setActiveBoard(id) on the registry `registry`, id being <<>> for null:
\* the active board and the events notified.
AfterSetActiveBoard(registry, active, id) ==
    IF id = <<>>
    THEN [active |-> <<>>,
          events |-> <<BoardEvent("activeBoardChanged", <<>>, <<>>, registry)>>]
    ELSE IF \E k \in 1..Len(registry) : registry[k].id = id[1]
    THEN [active |-> id,
          events |-> <<BoardEvent("activeBoardChanged", id, id, registry)>>]
    ELSE [active |-> active, events |-> <<>>]

\* createBoard without the test for a registered id: Map.set replaces the
\* entry of a registered id in place.
CreateBoardNoCheck(id, name) ==
    LET gl == GlAfterGetInstance
        ob == ObAfterGetInstance
        boardState == [id |-> id, name |-> name,
                       openingBook |-> ob.instance,
                       gameListService |-> gl.instance]
        registry == IF HasBoard(id)
                    THEN [k \in 1..Len(boards) |->
                            IF boards[k].id = id THEN boardState ELSE boards[k]]
                    ELSE Append(boards, boardState)
        set == IF activeBoard = <<>>
               THEN AfterSetActiveBoard(registry, activeBoard, <<id>>)
               ELSE [active |-> activeBoard, events |-> <<>>]
    IN /\ glInstance' = gl.instance
       /\ glHeap' = gl.heap
       /\ obInstance' = ob.instance
       /\ obHeap' = ob.heap
       /\ boards' = registry
       /\ activeBoard' = set.active
       /\ bmOut' = [op |-> "createBoard", threw |-> FALSE,
                    events |-> Append(set.events,
                                      BoardEvent("boardCreated", <<id>>,
                                                 set.active, registry))]
       /\ UNCHANGED <<glOut, obNow, obPending, obOut, obDone, gmVars, mtVars,
                      sfVars, ceVars, eaVars>>

CreateBoard(id, name) ==
    IF HasBoard(id)
    THEN /\ bmOut' = [op |-> "createBoard", threw |-> TRUE, events |-> <<>>]
         /\ UNCHANGED <<boards, activeBoard, glVars, obVars, gmVars, mtVars,
                        sfVars, ceVars, eaVars>>
    ELSE LET gl == GlAfterGetInstance
             ob == ObAfterGetInstance
             boardState == [id |-> id, name |-> name,
                            openingBook |-> ob.instance,
                            gameListService |-> gl.instance]
             registry == Append(boards, boardState)
             set == IF activeBoard = <<>>
                    THEN AfterSetActiveBoard(registry, activeBoard, <<id>>)
                    ELSE [active |-> activeBoard, events |-> <<>>]
         IN /\ glInstance' = gl.instance
            /\ glHeap' = gl.heap
            /\ obInstance' = ob.instance
            /\ obHeap' = ob.heap
            /\ boards' = registry
            /\ activeBoard' = set.active
            /\ bmOut' = [op |-> "createBoard", threw |-> FALSE,
                         events |-> Append(set.events,
                                           BoardEvent("boardCreated", <<id>>,
                                                 set.active, registry))]
            /\ UNCHANGED <<glOut, obNow, obPending, obOut, obDone, gmVars, mtVars,
                           sfVars, ceVars, eaVars>>

\* nextBoard?.id || null, nextBoard being the first value of the Map.
NextBoardId(registry) ==
    IF registry = <<>> \/ registry[1].id = "" THEN <<>> ELSE <<registry[1].id>>

RemoveBoard(id) ==
    /\ IF HasBoard(id)
       THEN LET registry == WithoutBoard(id)
                removed == <<BoardEvent("boardRemoved", <<id>>, activeBoard,
                                        registry)>>
                set == IF activeBoard = <<id>>
                       THEN AfterSetActiveBoard(registry, activeBoard,
                                                NextBoardId(registry))
                       ELSE [active |-> activeBoard, events |-> <<>>]
            IN /\ boards' = registry
               /\ activeBoard' = set.active
               /\ bmOut' = [op |-> "removeBoard", threw |-> FALSE,
                            events |-> removed \o set.events]
       ELSE /\ bmOut' = [op |-> "removeBoard", threw |-> FALSE, events |-> <<>>]
            /\ UNCHANGED <<boards, activeBoard>>
    /\ UNCHANGED <<glVars, obVars, gmVars, mtVars, sfVars, ceVars, eaVars>>

SetActiveBoard(id) ==
    LET set == AfterSetActiveBoard(boards, activeBoard, id)
    IN /\ activeBoard' = set.active
       /\ bmOut' = [op |-> "setActiveBoard", threw |-> FALSE,
                    events |-> set.events]
       /\ UNCHANGED <<boards, glVars, obVars, gmVars, mtVars, sfVars, ceVars, eaVars>>

\* board.gameListService.setGames(games) for the board registered as id
BoardSetGames(id, games) ==
    /\ HasBoard(id)
    /\ glHeap' = GlSet(glHeap, BoardOf(id).gameListService, "games", games)
    /\ UNCHANGED <<glInstance, glOut, obVars, bmVars, gmVars, mtVars,
                   sfVars, ceVars, eaVars>>

\* board.gameListService.setFilter(filter)
BoardSetFilter(id, filter) ==
    /\ HasBoard(id)
    /\ glHeap' = GlSet(glHeap, BoardOf(id).gameListService,
                       "currentFilter", filter)
    /\ UNCHANGED <<glInstance, glOut, obVars, bmVars, gmVars, mtVars,
                   sfVars, ceVars, eaVars>>

\* board.openingBook.setDatabase(type)
BoardSetDatabase(id, type) ==
    /\ HasBoard(id)
    /\ obHeap' = ObSetDatabase(obHeap, BoardOf(id).openingBook, type)
    /\ obDone' = <<>>
    /\ obOut' = [NoObCall EXCEPT !.op = "setDatabase"]
    /\ UNCHANGED <<obInstance, obNow, obPending, glVars, bmVars,
                   gmVars, mtVars, sfVars, ceVars, eaVars>>

\* board.gameListService.getGames() / board.openingBook.getCurrentDatabase()
BoardGetGames(id) ==
    LET service == glHeap[BoardOf(id).gameListService]
    IN applyFilterAndSort(service.games, service)
BoardGetCurrentDatabase(id) == obHeap[BoardOf(id).openingBook].currentDatabase

DatabaseTypes == {"masters", "lichess"}
BoardGameLists == {<<>>, <<GameCarlsen, GameDing>>}
BoardFilters == {NoFilter, [NoFilter EXCEPT !.white = "Carlsen"]}

\* BoardManager.reset(): the observers are dropped, nobody is notified.
ResetBoards ==
    /\ boards' = <<>>
    /\ activeBoard' = <<>>
    /\ bmOut' = [op |-> "reset", threw |-> FALSE, events |-> <<>>]
    /\ UNCHANGED <<glVars, obVars, gmVars, mtVars, sfVars, ceVars, eaVars>>

NextBoards ==
    \/ ResetBoards
    \/ \E id \in BoardIds, name \in BoardNames : CreateBoard(id, name)
    \/ \E id \in BoardIds : RemoveBoard(id)
    \/ \E id \in {<<>>} \cup {<<i>> : i \in BoardIds} : SetActiveBoard(id)
    \/ \E id \in BoardIds, games \in BoardGameLists : BoardSetGames(id, games)
    \/ \E id \in BoardIds, filter \in BoardFilters : BoardSetFilter(id, filter)
    \/ \E id \in BoardIds, type \in DatabaseTypes : BoardSetDatabase(id, type)

SpecBoards == InitApp /\ [][NextBoards]_vars

\* C22: a call of setGames or setFilter on the game list service of one
\* board, or of setDatabase on its opening book, changes neither what
\* getGames() nor what getCurrentDatabase() returns on any other board.
C22_BoardsShareNothing ==
    [][\A id \in BoardIds :
         \/ \E games \in BoardGameLists : BoardSetGames(id, games)
         \/ \E filter \in BoardFilters : BoardSetFilter(id, filter)
         \/ \E type \in DatabaseTypes : BoardSetDatabase(id, type)
         => \A other \in BoardIds \ {id} :
               HasBoard(other) =>
                 /\ BoardGetGames(other)' = BoardGetGames(other)
                 /\ BoardGetCurrentDatabase(other)'
                      = BoardGetCurrentDatabase(other)]_vars

\* C23: createBoard with a registered id throws, and the registry, the
\* active board and the events seen by observers are as before the call.
C23_DuplicateIdThrows ==
    [][\A id \in BoardIds, name \in BoardNames :
         CreateBoard(id, name) /\ HasBoard(id)
         => /\ bmOut'.threw
            /\ bmOut'.events = <<>>
            /\ boards' = boards
            /\ activeBoard' = activeBoard]_vars

\* createBoard has thrown with two boards registered.
C23_Witness ==
    /\ bmOut.op = "createBoard"
    /\ bmOut.threw
    /\ Len(boards) = 2
    /\ activeBoard # <<>>

\* C24: removeBoard of the active board makes the first remaining board in
\* creation order the active board, or leaves none active when no board
\* remains; removeBoard of another registered board leaves the active board
\* as it was.
C24_RemoveActivatesFirstRemaining ==
    [][\A id \in BoardIds :
         RemoveBoard(id) /\ HasBoard(id)
         => LET remaining == WithoutBoard(id)
            IN IF activeBoard = <<id>>
               THEN activeBoard' = IF remaining = <<>> THEN <<>>
                                   ELSE <<remaining[1].id>>
               ELSE activeBoard' = activeBoard]_vars

\* C32: after every BoardManager operation and at every notification of an
\* observer, getActiveBoard() is null or a board that is registered.
C32_ActiveBoardRegistered ==
    /\ activeBoard = <<>> \/ HasBoard(activeBoard[1])
    /\ \A k \in 1..Len(bmOut.events) :
          LET seen == bmOut.events[k]
          IN seen.active = <<>> \/ seen.active[1] \in seen.registered

(***************************************************************************)
(* GameManager and its MoveTreeService.  The position of a Chess object is *)
(* the FEN it started from and the SAN moves played on it since.           *)
(***************************************************************************)
PromotionFen == "8/1P6/8/8/8/8/7k/K7 w - - 0 1"
InvalidFen == "invalid fen"

NewChess == [fen |-> StartFen, line |-> <<>>]

SquareMove(from, to, promotion) ==
    [from |-> from, to |-> to, promotion |-> promotion]

\* The moves handed to makeMove; promotion "" is undefined.
SquareMoves ==
    {SquareMove("e2", "e4", ""), SquareMove("e7", "e5", ""),
     SquareMove("g1", "f3", ""), SquareMove("e2", "e5", ""),
     SquareMove("b7", "b8", "q")}

\* move.san of the library for a move it accepts.
SanOfSquares(move) ==
    CASE move = SquareMove("e2", "e4", "") -> "e4"
      [] move = SquareMove("e7", "e5", "") -> "e5"
      [] move = SquareMove("g1", "f3", "") -> "Nf3"
      [] move = SquareMove("b7", "b8", "q") -> "b8=Q+"
      [] OTHER -> "?"

InLine(position, san) ==
    \E k \in 1..Len(position.line) : position.line[k] = san

\* chess.move(): whether the library accepts the move with this SAN in
\* the position.  Both FENs have White to move.
LegalSan(position, san) ==
    LET whiteToMove == Len(position.line) % 2 = 0
    IN CASE san \in {"e4", "Nf3"} ->
              position.fen = StartFen /\ whiteToMove /\ ~InLine(position, san)
         [] san = "e5" ->
              position.fen = StartFen /\ ~whiteToMove /\ ~InLine(position, san)
         [] san = "b8=Q+" ->
              position.fen = PromotionFen /\ position.line = <<>>
         [] OTHER -> FALSE

PlaySan(position, san) == [position EXCEPT !.line = Append(@, san)]

PgnMoveOf(san, position) == [san |-> san, fen |-> position, variations |-> <<>>]

SansOf(moves) == [k \in 1..Len(moves) |-> moves[k].san]

\* The loop of goToMove over moveHistory[0..moveIndex] on a new Chess.
\* A SAN the library does not accept ends the loop when move() throws
\* (`throws`), and is passed over when move() returns null.
\* replay[i] is the state of the loop after i moves.
Replay(history, moveIndex, throws) ==
    LET replay[i \in 0..(moveIndex + 1)] ==
          IF i = 0 THEN [position |-> NewChess, thrown |-> FALSE]
          ELSE LET before == replay[i - 1]
               IN IF before.thrown THEN before
                  ELSE IF LegalSan(before.position, history[i].san)
                  THEN [before EXCEPT
                          !.position = PlaySan(@, history[i].san)]
                  ELSE [before EXCEPT !.thrown = throws]
    IN replay[moveIndex + 1]

\* MoveTreeService.goToMove, on the service of the game manager or alone.
MtGoToMoveInclusive(moveIndex) ==
    IF moveIndex >= -1 /\ moveIndex <= Len(mtMoves)
    THEN /\ mtCurrentMoveIndex' = moveIndex
         /\ mtOut' = [op |-> "goToMove", result |-> TRUE, notified |-> TRUE]
         /\ UNCHANGED mtMoves
    ELSE /\ mtOut' = [op |-> "goToMove", result |-> FALSE, notified |-> FALSE]
         /\ UNCHANGED <<mtMoves, mtCurrentMoveIndex>>

MtGoToMove(moveIndex) ==
    IF moveIndex >= -1 /\ moveIndex < Len(mtMoves)
    THEN /\ mtCurrentMoveIndex' = moveIndex
         /\ mtOut' = [op |-> "goToMove", result |-> TRUE, notified |-> TRUE]
         /\ UNCHANGED mtMoves
    ELSE /\ mtOut' = [op |-> "goToMove", result |-> FALSE, notified |-> FALSE]
         /\ UNCHANGED <<mtMoves, mtCurrentMoveIndex>>

\* MoveTreeService.loadGame(game)
MtLoadGame(moves) ==
    /\ mtMoves' = moves
    /\ mtCurrentMoveIndex' = -1
    /\ mtOut' = [op |-> "loadGame", result |-> TRUE, notified |-> TRUE]

\* The filter of setMoves: objects with san, fen and variations.
IsPgnMove(move) == {"san", "fen", "variations"} \subseteq DOMAIN move

MtSetMoves(moves) ==
    /\ mtMoves' = SelectSeq(moves, IsPgnMove)
    /\ mtCurrentMoveIndex' = -1
    /\ mtOut' = [op |-> "setMoves", result |-> TRUE, notified |-> TRUE]

MtReset ==
    /\ mtMoves' = <<>>
    /\ mtCurrentMoveIndex' = -1
    /\ mtOut' = [op |-> "reset", result |-> TRUE, notified |-> TRUE]

MoveE4 == PgnMoveOf("e4", PlaySan(NewChess, "e4"))
MoveE5 == PgnMoveOf("e5", PlaySan(PlaySan(NewChess, "e4"), "e5"))
MoveNf3 == PgnMoveOf("Nf3", PlaySan(PlaySan(PlaySan(NewChess, "e4"), "e5"), "Nf3"))

GmOthers == <<gmStart, glVars, obVars, bmVars, sfVars, ceVars, eaVars>>

\* GameManager.goToMove(moveIndex); `throws` is whether the library's
\* move() throws on a move it does not accept or returns null.
GoToMove(moveIndex, throws) ==
    /\ IF moveIndex < -1 \/ moveIndex >= Len(moveHistory)
       THEN /\ gmOut' = [op |-> "goToMove", result |-> FALSE,
                         notified |-> FALSE]
            /\ UNCHANGED <<chess, moveHistory, gmCurrentMoveIndex, mtVars>>
       ELSE LET replayed == Replay(moveHistory, moveIndex, throws)
            IN /\ chess' = replayed.position
               /\ UNCHANGED moveHistory
               /\ IF replayed.thrown
                  THEN /\ gmCurrentMoveIndex' = -1
                       /\ gmOut' = [op |-> "goToMove", result |-> FALSE,
                                    notified |-> FALSE]
                       /\ UNCHANGED mtVars
                  ELSE /\ gmCurrentMoveIndex' = moveIndex
                       /\ MtGoToMove(moveIndex)
                       /\ gmOut' = [op |-> "goToMove", result |-> TRUE,
                                    notified |-> TRUE]
    /\ UNCHANGED GmOthers

\* makeMove without asking the library whether the move is legal.
MakeMoveUnchecked(move) ==
    LET san == SanOfSquares(move)
        position == PlaySan(chess, san)
        history == Append(SubSeq(moveHistory, 1, gmCurrentMoveIndex + 1),
                          PgnMoveOf(san, position))
    IN /\ chess' = position
       /\ moveHistory' = history
       /\ gmCurrentMoveIndex' = gmCurrentMoveIndex + 1
       /\ MtLoadGame(history)
       /\ gmOut' = [op |-> "makeMove", result |-> TRUE, notified |-> TRUE]
       /\ UNCHANGED GmOthers

\* makeMove that appends to the whole history, whatever currentMoveIndex.
MakeMoveNoTruncate(move) ==
    LET san == SanOfSquares(move)
    IN IF ~LegalSan(chess, san)
       THEN /\ gmOut' = [op |-> "makeMove", result |-> FALSE,
                         notified |-> FALSE]
            /\ UNCHANGED <<chess, moveHistory, gmCurrentMoveIndex, mtVars,
                           GmOthers>>
       ELSE LET position == PlaySan(chess, san)
                history == Append(moveHistory, PgnMoveOf(san, position))
            IN /\ chess' = position
               /\ moveHistory' = history
               /\ gmCurrentMoveIndex' = gmCurrentMoveIndex + 1
               /\ MtLoadGame(history)
               /\ gmOut' = [op |-> "makeMove", result |-> TRUE,
                            notified |-> TRUE]
               /\ UNCHANGED GmOthers

\* GameManager.makeMove(from, to, promotion)
MakeMove(move) ==
    LET san == SanOfSquares(move)
    IN IF ~LegalSan(chess, san)
       THEN /\ gmOut' = [op |-> "makeMove", result |-> FALSE,
                         notified |-> FALSE]
            /\ UNCHANGED <<chess, moveHistory, gmCurrentMoveIndex, mtVars,
                           GmOthers>>
       ELSE LET position == PlaySan(chess, san)
                history == Append(SubSeq(moveHistory, 1,
                                         gmCurrentMoveIndex + 1),
                                  PgnMoveOf(san, position))
            IN /\ chess' = position
               /\ moveHistory' = history
               /\ gmCurrentMoveIndex' = gmCurrentMoveIndex + 1
               /\ MtLoadGame(history)
               /\ gmOut' = [op |-> "makeMove", result |-> TRUE,
                            notified |-> TRUE]
               /\ UNCHANGED GmOthers

\* GameManager.loadFEN(fen)
LoadFEN(fen) ==
    /\ IF fen = InvalidFen
       THEN /\ gmOut' = [op |-> "loadFEN", result |-> FALSE,
                         notified |-> FALSE]
            /\ UNCHANGED <<chess, moveHistory, gmCurrentMoveIndex>>
       ELSE /\ chess' = [fen |-> fen, line |-> <<>>]
            /\ moveHistory' = <<>>
            /\ gmCurrentMoveIndex' = -1
            /\ gmOut' = [op |-> "loadFEN", result |-> TRUE, notified |-> TRUE]
    /\ gmStart' = IF fen = InvalidFen THEN gmStart ELSE fen
    /\ UNCHANGED <<mtVars, glVars, obVars, bmVars, sfVars, ceVars, eaVars>>

\* GameManager.reset()
GmReset ==
    /\ chess' = NewChess
    /\ moveHistory' = <<>>
    /\ gmCurrentMoveIndex' = -1
    /\ gmOut' = [op |-> "reset", result |-> TRUE, notified |-> TRUE]
    /\ gmStart' = StartFen
    /\ UNCHANGED <<mtVars, glVars, obVars, bmVars, sfVars, ceVars, eaVars>>

\* The games handed to loadGame and parsed by loadPGN: the moves PgnService
\* made by replaying the PGN on a new Chess, and whether chess.loadPgn
\* accepts the PGN text.
PgnGames ==
    {[valid |-> v, moves |-> m] :
       v \in BOOLEAN, m \in {<<MoveE4>>, <<MoveE4, MoveE5>>}}

\* GameManager.loadGame(game): chess.loadPgn leaves the Chess object at
\* the end of the game.
LoadGame(game) ==
    /\ IF game.valid
       THEN /\ chess' = [fen |-> StartFen, line |-> SansOf(game.moves)]
            /\ moveHistory' = game.moves
            /\ gmCurrentMoveIndex' = -1
            /\ MtLoadGame(game.moves)
            /\ gmStart' = StartFen
            /\ gmOut' = [op |-> "loadGame", result |-> TRUE, notified |-> TRUE]
       ELSE /\ chess' = NewChess
            /\ gmOut' = [op |-> "loadGame", result |-> FALSE,
                         notified |-> FALSE]
            /\ UNCHANGED <<moveHistory, gmCurrentMoveIndex, gmStart, mtVars>>
    /\ UNCHANGED <<glVars, obVars, bmVars, sfVars, ceVars, eaVars>>

\* GameManager.loadPGN(pgnText), the text parsing to `game` or to nothing.
LoadPGN(game) ==
    /\ IF game.valid
       THEN /\ chess' = NewChess
            /\ moveHistory' = game.moves
            /\ gmCurrentMoveIndex' = -1
            /\ gmStart' = StartFen
            /\ gmOut' = [op |-> "loadPGN", result |-> TRUE, notified |-> TRUE]
       ELSE /\ gmOut' = [op |-> "loadPGN", result |-> FALSE,
                         notified |-> FALSE]
            /\ UNCHANGED <<chess, moveHistory, gmCurrentMoveIndex, gmStart>>
    /\ UNCHANGED <<mtVars, glVars, obVars, bmVars, sfVars, ceVars, eaVars>>

\* The longest history makeMove is let to build.
MaxHistory == 2

NextGm ==
    \/ \E moveIndex \in -2..(Len(moveHistory) + 1), throws \in BOOLEAN :
          GoToMove(moveIndex, throws)
    \/ \E move \in SquareMoves :
          /\ LegalSan(chess, SanOfSquares(move))
               => gmCurrentMoveIndex + 1 < MaxHistory
          /\ MakeMove(move)
    \/ \E fen \in {StartFen, PromotionFen, InvalidFen} : LoadFEN(fen)
    \/ GmReset
    \/ \E game \in PgnGames : LoadGame(game)
    \/ \E game \in PgnGames : LoadPGN(game)

SpecGm == InitApp /\ [][NextGm]_vars

\* C25: goToMove(i) with -1 <= i < moveHistory.length returns true, sets
\* currentMoveIndex to i and leaves the position that the first i+1 moves
\* of the history give from the start position; with any other i it
\* returns false.
C25_GoToMoveReplays ==
    [][\A moveIndex \in -2..(Len(moveHistory) + 1) :
         (\E throws \in BOOLEAN : GoToMove(moveIndex, throws))
         => IF -1 <= moveIndex /\ moveIndex < Len(moveHistory)
            THEN /\ gmOut'.result
                 /\ gmCurrentMoveIndex' = moveIndex
                 /\ chess' = [fen |-> StartFen,
                              line |-> SubSeq(SansOf(moveHistory), 1,
                                              moveIndex + 1)]
            ELSE ~gmOut'.result]_vars

\* C26: makeMove with a move the position does not allow returns false,
\* leaves currentMoveIndex, the history and the position as they were and
\* notifies no observer.
C26_IllegalMoveRejected ==
    [][\A move \in SquareMoves :
         MakeMove(move) /\ ~LegalSan(chess, SanOfSquares(move))
         => /\ ~gmOut'.result
            /\ ~gmOut'.notified
            /\ UNCHANGED <<chess, moveHistory, gmCurrentMoveIndex>>]_vars

\* makeMove has refused a move after two moves were played.
C26_Witness ==
    /\ gmOut = [op |-> "makeMove", result |-> FALSE, notified |-> FALSE]
    /\ Len(moveHistory) = 2
    /\ gmCurrentMoveIndex = 1

\* C33: after every GameManager operation that succeeded, the position is
\* the one that moveHistory[0..currentMoveIndex] gives from the start
\* position of the loaded game or FEN; with currentMoveIndex = -1 it is
\* that start position.
C33_PositionIsReplay ==
    gmOut.op # "none" /\ gmOut.result
    => chess = [fen |-> gmStart,
                line |-> SubSeq(SansOf(moveHistory), 1, gmCurrentMoveIndex + 1)]

\* C34: a goToMove that returns false leaves the position, currentMoveIndex
\* and the move history as they were.
C34_FailedGoToMoveChangesNothing ==
    [][\A moveIndex \in -2..(Len(moveHistory) + 1) :
         (\E throws \in BOOLEAN : GoToMove(moveIndex, throws))
         /\ ~gmOut'.result
         => UNCHANGED <<chess, moveHistory, gmCurrentMoveIndex>>]_vars

\* C35: makeMove with a legal move at currentMoveIndex = k keeps the
\* history up to index k, appends the move and sets currentMoveIndex to
\* k + 1, the last index of the history; and -1 <= currentMoveIndex <
\* moveHistory.length in every state.
C35_MakeMoveTruncates ==
    /\ [](-1 <= gmCurrentMoveIndex /\ gmCurrentMoveIndex < Len(moveHistory))
    /\ [][\A move \in SquareMoves :
            MakeMove(move) /\ LegalSan(chess, SanOfSquares(move))
            => /\ gmCurrentMoveIndex' = gmCurrentMoveIndex + 1
               /\ gmCurrentMoveIndex' = Len(moveHistory') - 1
               /\ SubSeq(moveHistory', 1, gmCurrentMoveIndex + 1)
                    = SubSeq(moveHistory, 1, gmCurrentMoveIndex + 1)
               /\ moveHistory'[Len(moveHistory')].san = SanOfSquares(move)]_vars

\* A move was made from the start of a history of two moves: the history
\* now holds that move alone.
C35_Witness ==
    /\ gmOut = [op |-> "makeMove", result |-> TRUE, notified |-> TRUE]
    /\ SansOf(moveHistory) = <<"Nf3">>
    /\ gmCurrentMoveIndex = 0
    /\ Len(mtMoves) = 1

(***************************************************************************)
(* MoveTreeService called on its own.                                      *)
(***************************************************************************)
MtOthers == <<glVars, obVars, bmVars, gmVars, sfVars, ceVars, eaVars>>

\* An entry setMoves filters out: no fen, no variations.
NotAMove == [san |-> "e5"]

MaxMoves == 3       \* length of the lists passed to loadGame

\* loadGame takes any list of moves: the service does not replay them.
MoveLists == UNION {[1..n -> {MoveE4, MoveE5, MoveNf3}] : n \in 0..MaxMoves}
RawMoveLists == MoveLists \cup {<<MoveE4, NotAMove>>, <<NotAMove, MoveE4, MoveE5>>}

NextMt ==
    \/ \E moves \in RawMoveLists : MtSetMoves(moves) /\ UNCHANGED MtOthers
    \/ \E moves \in MoveLists : MtLoadGame(moves) /\ UNCHANGED MtOthers
    \/ MtReset /\ UNCHANGED MtOthers
    \/ \E moveIndex \in -2..(Len(mtMoves) + 1) :
          MtGoToMove(moveIndex) /\ UNCHANGED MtOthers

SpecMt == InitApp /\ [][NextMt]_vars

\* C27: goToMove(i) returns true and sets currentMoveIndex to i when
\* -1 <= i < moves.length; otherwise it returns false, keeps
\* currentMoveIndex and notifies nobody; and after every sequence of
\* setMoves, loadGame, reset and goToMove, -1 <= currentMoveIndex <
\* moves.length.
C27_IndexWithinMoves ==
    /\ [](-1 <= mtCurrentMoveIndex /\ mtCurrentMoveIndex < Len(mtMoves))
    /\ [][\A moveIndex \in -2..(Len(mtMoves) + 1) :
            MtGoToMove(moveIndex)
            => IF -1 <= moveIndex /\ moveIndex < Len(mtMoves)
               THEN mtOut'.result /\ mtCurrentMoveIndex' = moveIndex
               ELSE /\ ~mtOut'.result
                    /\ ~mtOut'.notified
                    /\ mtCurrentMoveIndex' = mtCurrentMoveIndex]_vars

\* goToMove(3) has been refused on three moves with the index at the last.
C27_Witness ==
    /\ mtOut = [op |-> "goToMove", result |-> FALSE, notified |-> FALSE]
    /\ Len(mtMoves) = 3
    /\ mtCurrentMoveIndex = 2

(***************************************************************************)
(* OpeningBookService: the cache of fetched positions.  A cache key is the *)
(* pair of database and FEN; a fetched position names the FEN and the      *)
(* endpoint it was asked of.  A fetch that fails is answered with an empty *)
(* position, which the caller stores like any other.                       *)
(***************************************************************************)
MaxNow == 3         \* the clock stops here
MaxPending == 1     \* fetches in flight at a time

BookFens == {StartFen, FenA}
ObOthers == <<glVars, bmVars, gmVars, mtVars, sfVars, ceVars, eaVars>>

getCacheKey(service, fen) == <<service.currentDatabase, fen>>

\* isCacheValid(entry), with <= in place of <.
isCacheValidInclusive(service, entry) ==
    obNow - entry.timestamp <= service.cacheTimeout

isCacheValid(service, entry) ==
    obNow - entry.timestamp < service.cacheTimeout

\* cache.set(key, entry)
CacheSet(cache, key, entry) ==
    [k \in DOMAIN cache \cup {key} |-> IF k = key THEN entry ELSE cache[k]]

\* getMovesForPosition(fen) up to its return or its await: the key is
\* made and the fetch is sent with the database of this moment.
GetMovesForPosition(fen) ==
    LET got == ObAfterGetInstance
        service == got.heap[got.instance]
        cacheKey == getCacheKey(service, fen)
        hit == /\ cacheKey \in DOMAIN service.cache
               /\ isCacheValid(service, service.cache[cacheKey])
    IN /\ hit \/ Len(obPending) < MaxPending
       /\ obInstance' = got.instance
       /\ obHeap' = got.heap
       /\ IF hit
          THEN /\ obOut' = [op |-> "getMovesForPosition", key |-> cacheKey,
                            fetched |-> FALSE,
                            position |-> <<service.cache[cacheKey].position>>]
               /\ UNCHANGED obPending
          ELSE /\ obOut' = [op |-> "getMovesForPosition", key |-> cacheKey,
                            fetched |-> TRUE, position |-> <<>>]
               /\ obPending' =
                    Append(obPending,
                           [cacheKey |-> cacheKey,
                            position |-> [fen |-> fen,
                                          database |-> service.currentDatabase]])
       /\ UNCHANGED <<obNow, obDone, ObOthers>>

\* What fetch() does: it answers with response.ok, answers with another
\* status, or rejects.
Responses == {"ok", "notOk", "rejected"}

createEmptyPosition(request) ==
    [fen |-> request.fen, database |-> request.database, moves |-> <<>>]

\* transformApiResponse(data, fen) of an answer that lists a move
transformApiResponse(request) ==
    [fen |-> request.fen, database |-> request.database, moves |-> <<"e4">>]

\* fetchPositionFromDatabase(fen) once fetch() has settled
fetchPositionFromDatabase(request, response) ==
    IF response = "ok" THEN transformApiResponse(request)
    ELSE createEmptyPosition(request)

\* The fetch of a waiting call settles: the call writes the entry under
\* the key it made before the await, stamped with the time of now, and
\* resolves to the position.
FetchCompletes(k, response) ==
    /\ k \in 1..Len(obPending)
    /\ LET call == obPending[k]
           position == fetchPositionFromDatabase(call.position, response)
           entry == [position |-> position, timestamp |-> obNow]
       IN /\ obHeap' = [obHeap EXCEPT ![obInstance].cache =
                           CacheSet(@, call.cacheKey, entry)]
          /\ obDone' = CacheSet(obDone, call.cacheKey,
                                [at |-> obNow, failed |-> response # "ok",
                                 resolved |-> position])
    /\ obPending' = SubSeq(obPending, 1, k - 1)
                      \o SubSeq(obPending, k + 1, Len(obPending))
    /\ UNCHANGED <<obInstance, obNow, obOut, ObOthers>>

ClearCache ==
    LET got == ObAfterGetInstance
    IN /\ obInstance' = got.instance
       /\ obHeap' = [got.heap EXCEPT ![got.instance].cache = <<>>]
       /\ obDone' = <<>>
       /\ obOut' = [NoObCall EXCEPT !.op = "clearCache"]
       /\ UNCHANGED <<obNow, obPending, ObOthers>>

SetDatabase(type) ==
    LET got == ObAfterGetInstance
    IN /\ obInstance' = got.instance
       /\ obHeap' = ObSetDatabase(got.heap, got.instance, type)
       /\ obDone' = <<>>
       /\ obOut' = [NoObCall EXCEPT !.op = "setDatabase"]
       /\ UNCHANGED <<obNow, obPending, ObOthers>>

SetCacheTimeout(milliseconds) ==
    LET got == ObAfterGetInstance
    IN /\ obInstance' = got.instance
       /\ obHeap' = [got.heap EXCEPT ![got.instance].cacheTimeout = milliseconds]
       /\ obOut' = [NoObCall EXCEPT !.op = "setCacheTimeout"]
       /\ UNCHANGED <<obNow, obPending, obDone, ObOthers>>

\* Date.now() moves on.
Tick ==
    /\ obNow < MaxNow
    /\ obNow' = obNow + 1
    /\ UNCHANGED <<obInstance, obHeap, obPending, obOut, obDone, ObOthers>>

NextOb ==
    \/ \E fen \in BookFens : GetMovesForPosition(fen)
    \/ \E k \in 1..MaxPending, response \in Responses :
          FetchCompletes(k, response)
    \/ ClearCache
    \/ \E type \in DatabaseTypes : SetDatabase(type)
    \/ \E milliseconds \in {1, CacheTimeout} : SetCacheTimeout(milliseconds)
    \/ Tick

SpecOb == InitApp /\ [][NextOb]_vars

\* C29: a getMovesForPosition call fetches nothing and returns the cached
\* position when a fetch for the same database and FEN completed less than
\* cacheTimeout ago and neither clearCache nor setDatabase was called
\* since; when that completion is cacheTimeout old or older the call
\* fetches, and the completion of a fetch stamps the entry with the time
\* of the completion.
C29_CacheHonoursTimeout ==
    [][/\ \A fen \in BookFens :
            GetMovesForPosition(fen) /\ obInstance # 0
            => LET service == obHeap[obInstance]
                   key == getCacheKey(service, fen)
               IN key \in DOMAIN obDone =>
                    IF obNow - obDone[key].at < service.cacheTimeout
                    THEN /\ ~obOut'.fetched
                         /\ obOut'.position = <<service.cache[key].position>>
                         /\ obPending' = obPending
                    ELSE /\ obOut'.fetched
                         /\ Len(obPending') = Len(obPending) + 1
       /\ \A k \in 1..MaxPending, response \in Responses :
            FetchCompletes(k, response)
            => LET call == obPending[k]
               IN obHeap'[obInstance].cache[call.cacheKey] =
                    [position |->
                       fetchPositionFromDatabase(call.position, response),
                     timestamp |-> obNow]]_vars

\* A call was answered from the cache one tick or more after the fetch
\* that filled the entry had completed.
C29_Witness ==
    /\ obOut.op = "getMovesForPosition"
    /\ ~obOut.fetched
    /\ obOut.key \in DOMAIN obDone
    /\ obNow > obDone[obOut.key].at
    /\ obPending = <<>>

\* C30: the first getMovesForPosition call after clearCache() or
\* setDatabase() fetches, for whatever position it is made.
C30_FetchAfterClear ==
    [][\A fen \in BookFens :
         GetMovesForPosition(fen) /\ obOut.op \in {"clearCache", "setDatabase"}
         => obOut'.fetched]_vars

\* C37: a getMovesForPosition call whose fetch fails (fetch rejects or
\* answers with another status than ok) resolves to the empty position of
\* its FEN, and a later call for the same database and FEN fetches again.
C37_FailureNotCached ==
    [][/\ \A k \in 1..MaxPending, response \in Responses \ {"ok"} :
            FetchCompletes(k, response)
            => LET call == obPending[k]
               IN obDone'[call.cacheKey].resolved =
                    createEmptyPosition(call.position)
       /\ \A fen \in BookFens :
            GetMovesForPosition(fen) /\ obInstance # 0
            => LET key == getCacheKey(obHeap[obInstance], fen)
               IN key \in DOMAIN obDone /\ obDone[key].failed
                  => obOut'.fetched]_vars


(***************************************************************************)
(* EngineAnalysisService: the facade the viewer talks to.  It owns one     *)
(* ChessEngineService at a time and keeps its own isAnalyzing flag.        *)
(***************************************************************************)
EaOthers == <<sfVars, glVars, obVars, bmVars, gmVars, mtVars>>

\* The commands of ChessEngineService.startAnalysis and updateSettings
StartAnalysisCommands(fen, settings) ==
    << Cmd("stop"), PositionCmd(fen), Cmd("isready"),
       GoCmd(settings.depth, settings.multiPv, fen) >>

UpdateSettingsCommands(newSettings) ==
    << Cmd("stop"),
       SetOptionCmd("MultiPV", newSettings.multiPv),
       SetOptionCmd("Threads", newSettings.threads),
       SetOptionCmd("Hash", newSettings.hash),
       Cmd("isready") >>

\* initialize(settings): the engine service that was there is cleaned up
\* (its worker is sent quit and terminated), a new one is made with the
\* settings and initialized.  cePosted holds what the new worker is sent.
EaInitialize(settings) ==
    /\ eaEngineService' = TRUE
    /\ ceWorker' = "live"
    /\ ceSettings' = settings
    /\ currentAnalysis' = <<>>
    /\ cePosted' = InitializeEngineCommands(settings)
    /\ ceGoSent' = FALSE
    /\ ceSurfaced' = CeNoEmission
    /\ eaGoStanding' = FALSE
    /\ UNCHANGED <<ceOrphanGo, eaIsAnalyzing, eaCurrentPosition, EaOthers>>

\* startAnalysis(position)
EaStartAnalysis(fen) ==
    /\ IF ~eaEngineService
       THEN /\ cePosted' = <<>>
            /\ UNCHANGED <<eaIsAnalyzing, eaCurrentPosition, eaGoStanding,
                           currentAnalysis, ceGoSent>>
       ELSE /\ eaCurrentPosition' = <<fen>>
            /\ eaIsAnalyzing' = TRUE
            /\ currentAnalysis' = <<>>
            /\ cePosted' = StartAnalysisCommands(fen, ceSettings)
            /\ ceGoSent' = TRUE
            /\ eaGoStanding' = TRUE
    /\ ceSurfaced' = CeNoEmission
    /\ UNCHANGED <<eaEngineService, ceWorker, ceSettings, ceOrphanGo, EaOthers>>

\* stopAnalysis()
EaStopAnalysis ==
    /\ IF ~eaEngineService
       THEN /\ cePosted' = <<>>
            /\ UNCHANGED <<eaIsAnalyzing, eaGoStanding, currentAnalysis>>
       ELSE /\ eaIsAnalyzing' = FALSE
            /\ currentAnalysis' = <<>>
            /\ cePosted' = << Cmd("stop") >>
            /\ eaGoStanding' = FALSE
    /\ ceSurfaced' = CeNoEmission
    /\ UNCHANGED <<eaEngineService, eaCurrentPosition, ceWorker, ceSettings,
                   ceGoSent, ceOrphanGo, EaOthers>>

\* toggleAnalysis(position)
EaToggleAnalysis(fen) ==
    IF eaIsAnalyzing THEN EaStopAnalysis ELSE EaStartAnalysis(fen)

\* updateSettings(settings): the settings go to the engine service, and an
\* analysis under way is started again.
EaUpdateSettings(settings) ==
    /\ IF ~eaEngineService
       THEN /\ cePosted' = <<>>
            /\ UNCHANGED <<ceSettings, currentAnalysis, ceGoSent, eaGoStanding>>
       ELSE /\ ceSettings' = settings
            /\ IF eaIsAnalyzing /\ eaCurrentPosition # <<>>
               THEN /\ currentAnalysis' = <<>>
                    /\ cePosted' =
                         UpdateSettingsCommands(settings)
                           \o StartAnalysisCommands(eaCurrentPosition[1],
                                                    settings)
                    /\ ceGoSent' = TRUE
                    /\ eaGoStanding' = TRUE
               ELSE /\ cePosted' = UpdateSettingsCommands(settings)
                    /\ eaGoStanding' = FALSE
                    /\ UNCHANGED <<currentAnalysis, ceGoSent>>
    /\ ceSurfaced' = CeNoEmission
    /\ UNCHANGED <<eaEngineService, eaIsAnalyzing, eaCurrentPosition,
                   ceWorker, ceOrphanGo, EaOthers>>

\* cleanup()
EaCleanup ==
    /\ IF eaEngineService
       THEN /\ cePosted' = << Cmd("quit") >>
            /\ ceWorker' = "null"
            /\ ceGoSent' = FALSE
       ELSE /\ cePosted' = <<>>
            /\ UNCHANGED <<ceWorker, ceGoSent>>
    /\ eaEngineService' = FALSE
    /\ eaIsAnalyzing' = FALSE
    /\ eaCurrentPosition' = <<>>
    /\ eaGoStanding' = FALSE
    /\ ceSurfaced' = CeNoEmission
    /\ UNCHANGED <<ceSettings, currentAnalysis, ceOrphanGo, EaOthers>>

\* The lines the worker of the engine service posts while it searches.
EaLines == {InfoLine(1, "cp", 35, pv, TRUE) : pv \in CePvs}

NextEA ==
    \/ \E settings \in CeSettingsChoices : EaInitialize(settings)
    \/ \E fen \in Fens : EaStartAnalysis(fen)
    \/ EaStopAnalysis
    \/ \E fen \in Fens : EaToggleAnalysis(fen)
    \/ \E settings \in CeSettingsChoices : EaUpdateSettings(settings)
    \/ EaCleanup
    \/ \E line \in EaLines, throws \in BOOLEAN : CeInfoArrives(line, throws)

SpecEA == InitApp /\ [][NextEA]_vars

\* C36: isEngineAnalyzing() is true only while the present engine worker
\* has been sent a go that no stop has followed.
C36_FlagMeansSearching == eaIsAnalyzing => eaGoStanding

====
